---- MODULE Spec2Model ----
(***************************************************************************)
(* The external-data-fetch gateway of dashboard-obscura: the three POST    *)
(* handlers /api/fetchers/{json,xml,rdf}/route.js, modelled as one request *)
(* handled by one of the three routes.  The handler is an async function:  *)
(* each action below is the code that runs between two of its awaits.      *)
(*                                                                         *)
(* JavaScript values.  A field that the code only tests or compares        *)
(* (apiUrl, dataType, method, type, headerName, body) is a TLA+ string,    *)
(* and the JS value undefined is the token Undefined.  A string the code   *)
(* concatenates or encodes (credentials, header values) is a sequence of   *)
(* one-character strings, and undefined is the one-element UndefinedS.     *)
(***************************************************************************)
EXTENDS Integers, Sequences, FiniteSets, TLC

VARIABLES
    route,          \* which route.js handles the request: "json", "xml", "rdf"
    req,            \* the inbound request (request.json() and its destructuring)
    handles,        \* rdf route, module level: rdfParserInstance, actualUsableArrayifyStream
    pc,             \* the handler's position
    stages,         \* the stages the handler has entered, in order
    fetchOptions,   \* the handler's local fetchOptions
    fetchCalls,     \* the outbound calls issued: every fetch(apiUrl, fetchOptions)
    upstream,       \* externalApiResponse, once fetch has resolved
    stream,         \* rdf route: the quad stream, the collector and the two promises
    warned,         \* rdf route: console.warn about the missing content type was called
    responses,      \* the envelopes the handler has returned
    threw,          \* the handler ended by an uncaught exception
    networkError,   \* networkError.message, once fetch has rejected
    bodyRead,       \* whether the upstream response's body could be read
    parserCalls,    \* the calls of the parsing libraries and of console.warn, in order
    parseOptions,   \* rdf route: the parseOptions handed to rdfParserInstance.parse
    running,        \* which request's invocation of POST the variables above belong to
    parked,         \* the locals of the other invocation, suspended at an await
    ng,             \* the nerdgraph route: its environment, request and progress
    ui              \* the dashboard component: its state and handleKeyPress's progress

vars == <<route, req, handles, pc, stages, fetchOptions, fetchCalls, upstream,
          stream, warned, responses, threw, networkError, bodyRead, parserCalls,
          parseOptions, running, parked, ng, ui>>

-----------------------------------------------------------------------------
(* Bounds of the model.                                                    *)

\* the most quads the upstream body makes the quad stream emit
MaxQuads == 2
\* the most 'error' events the quad stream emits
MaxErrorEvents == 1

-----------------------------------------------------------------------------
(* JavaScript values and strings.                                          *)

Undefined == "<undefined>"
UndefinedS == <<Undefined>>
\* a request body that is an object, not a string: {key: "value"}
ObjectBody == "<object>"

\* !v for the plain values
Truthy(v) == v # Undefined /\ v # ""
\* !v for the character strings
TruthyS(s) == s # UndefinedS /\ s # <<>>

\* a JSON number given where a string is expected: truthy, and no string
NumberValue == "<number 42>"

IsString(v) == v # Undefined /\ v # ObjectBody /\ v # NumberValue

Lower == <<"a","b","c","d","e","f","g","h","i","j","k","l","m",
           "n","o","p","q","r","s","t","u","v","w","x","y","z">>
Upper == <<"A","B","C","D","E","F","G","H","I","J","K","L","M",
           "N","O","P","Q","R","S","T","U","V","W","X","Y","Z">>
Digits == <<"0","1","2","3","4","5","6","7","8","9">>

IndexOf(c, seq) == CHOOSE i \in 1..Len(seq) : seq[i] = c
Occurs(c, seq) == \E i \in 1..Len(seq) : seq[i] = c

\* the UTF-8 byte of an ASCII character (Buffer.from(string))
CharCode(c) ==
    IF Occurs(c, Lower) THEN 96 + IndexOf(c, Lower)
    ELSE IF Occurs(c, Upper) THEN 64 + IndexOf(c, Upper)
    ELSE IF Occurs(c, Digits) THEN 47 + IndexOf(c, Digits)
    ELSE CASE c = " " -> 32
           [] c = "-" -> 45
           [] c = "/" -> 47
           [] c = ":" -> 58
           [] c = "=" -> 61

Bytes(s) == [i \in 1..Len(s) |-> CharCode(s[i])]

Base64Alphabet == Upper \o Lower \o Digits \o <<"+", "/">>

B64Char(n) == Base64Alphabet[n + 1]

RECURSIVE Base64(_)
\* Buffer.toString("base64"): three bytes to four characters, padded with "="
Base64(b) ==
    IF Len(b) = 0 THEN <<>>
    ELSE IF Len(b) = 1 THEN
        <<B64Char(b[1] \div 4), B64Char((b[1] % 4) * 16), "=", "=">>
    ELSE IF Len(b) = 2 THEN
        <<B64Char(b[1] \div 4), B64Char((b[1] % 4) * 16 + b[2] \div 16),
          B64Char((b[2] % 16) * 4), "=">>
    ELSE
        <<B64Char(b[1] \div 4), B64Char((b[1] % 4) * 16 + b[2] \div 16),
          B64Char((b[2] % 16) * 4 + b[3] \div 64), B64Char(b[3] % 64)>>
        \o Base64(SubSeq(b, 4, Len(b)))

\* a template literal's ${v}: undefined prints as "undefined"
ToStringS(s) ==
    IF s = UndefinedS THEN <<"u","n","d","e","f","i","n","e","d">> ELSE s

ToLowerChar(c) == IF Occurs(c, Upper) THEN Lower[IndexOf(c, Upper)] ELSE c

\* String.prototype.toLowerCase
ToLowerCase(s) == [i \in 1..Len(s) |-> ToLowerChar(s[i])]

\* String.prototype.includes
Includes(s, sub) ==
    \E i \in 0..(Len(s) - Len(sub)) : SubSeq(s, i + 1, i + Len(sub)) = sub

-----------------------------------------------------------------------------
(* The inbound requests the model draws from.                              *)

AppJson == <<"a","p","p","l","i","c","a","t","i","o","n","/","j","s","o","n">>
AppXml == <<"a","p","p","l","i","c","a","t","i","o","n","/","x","m","l">>
AppJsonMixed == <<"A","p","p","l","i","c","a","t","i","o","n","/","J","S","O","N">>
CallerValue == <<"c","a","l","l","e","r">>
JsonWord == <<"j","s","o","n">>

NoHeaders == [n \in {} |-> <<>>]

\* the caller's headers: none, a clashing Authorization, a Content-Type
\* override that is no JSON one, and one that is in another letter case
CustomHeaders ==
    { NoHeaders,
      [n \in {"Authorization"} |-> CallerValue],
      [n \in {"Content-Type"} |-> AppXml],
      [n \in {"Content-Type"} |-> AppJsonMixed] }

ApiUrls == {Undefined, "", "https://api.example.com/data"}
DataTypes == {Undefined, "json", "xml", "rdf"}

\* method and body together: the default GET, a string body, an object body
\* under POST, under GET and under a lower-case spelling, and PUT with the
\* empty string as body
MethodsAndBodies ==
    { <<Undefined, Undefined>>, <<"POST", "payload">>, <<"POST", ObjectBody>>,
      <<"GET", ObjectBody>>, <<"post", ObjectBody>>, <<"PUT", "">> }

Auth(given, type, hasCredentials, key, headerName, prefix, token, username, password) ==
    [given |-> given, type |-> type, hasCredentials |-> hasCredentials,
     key |-> key, headerName |-> headerName, prefix |-> prefix,
     token |-> token, username |-> username, password |-> password]

NoCreds(given, type, hasCredentials) ==
    Auth(given, type, hasCredentials, UndefinedS, Undefined, UndefinedS,
         UndefinedS, UndefinedS, UndefinedS)

KeyValue == <<"k","e","y">>
PrefixValue == <<"A","p","i","K","e","y"," ">>
TokenValue == <<"t","o","k">>
UserValue == <<"u","s","e","r">>
PassValue == <<"p","a","s","s">>

Authentications ==
    { NoCreds(FALSE, Undefined, FALSE),
      NoCreds(TRUE, Undefined, TRUE),
      NoCreds(TRUE, "apiKey", FALSE),
      NoCreds(TRUE, "oauth2", TRUE),
      NoCreds(TRUE, "apikey", TRUE) }
    \cup { Auth(TRUE, "apiKey", TRUE, k, h, p, UndefinedS, UndefinedS, UndefinedS) :
              k \in {UndefinedS, KeyValue},
              h \in {Undefined, "X-API-KEY", "Authorization"},
              p \in {UndefinedS, PrefixValue} }
    \cup { Auth(TRUE, "bearerToken", TRUE, UndefinedS, Undefined, UndefinedS, t,
                UndefinedS, UndefinedS) :
              t \in {UndefinedS, TokenValue} }
    \cup { Auth(TRUE, "basicAuth", TRUE, UndefinedS, Undefined, UndefinedS, UndefinedS,
                u, p) :
              u \in {UndefinedS, <<>>, UserValue},
              p \in {UndefinedS, <<>>, PassValue} }

Request(kind, apiUrl, dataType, mb, headers, authentication, rdfContentType) ==
    [bodyKind |-> kind, apiUrl |-> apiUrl, dataType |-> dataType,
     method |-> mb[1], body |-> mb[2], headers |-> headers,
     authentication |-> authentication, rdfContentType |-> rdfContentType]

\* a body that is no object carries no field
EmptyRequest(kind) ==
    Request(kind, Undefined, Undefined, <<Undefined, Undefined>>, NoHeaders,
            NoCreds(FALSE, Undefined, FALSE), Undefined)

\* rdf.contentType is read by the rdf route alone
RdfContentTypes(r) == IF r = "rdf" THEN {Undefined, "", "text/turtle"} ELSE {Undefined}

\* a body whose apiUrl is a number, otherwise the plainest request of the route
NumberUrlRequest(r) ==
    Request("object", NumberValue, r, <<Undefined, Undefined>>, NoHeaders,
            NoCreds(FALSE, Undefined, FALSE), Undefined)

Requests(r) ==
    { EmptyRequest("malformed"), EmptyRequest("null"), NumberUrlRequest(r) }
    \cup { Request("object", u, d, mb, h, a, ct) :
              u \in ApiUrls, d \in DataTypes, mb \in MethodsAndBodies,
              h \in CustomHeaders, a \in Authentications, ct \in RdfContentTypes(r) }

Routes == {"json", "xml", "rdf"}

\* the two library handles of the rdf route.js, set once when the module loads
Handles(r) ==
    IF r = "rdf"
    THEN [rdfParserInstance : BOOLEAN, actualUsableArrayifyStream : BOOLEAN]
    ELSE {[rdfParserInstance |-> TRUE, actualUsableArrayifyStream |-> TRUE]}

-----------------------------------------------------------------------------
(* The outward envelope: errorResponse and NextResponse.json.              *)

Null == "<null>"

Details(kind, text, originalStatus, originalStatusText, originalBody) ==
    [kind |-> kind, text |-> text, originalStatus |-> originalStatus,
     originalStatusText |-> originalStatusText, originalBody |-> originalBody]

\* the default of errorResponse's third parameter
NullDetails == Details("null", "", 0, "", "")
\* a string: an error's message or stack
StringDetails(text) == Details("string", text, 0, "", "")
\* {originalStatus, originalStatusText, originalBody}
UpstreamDetails(st, stText, body) == Details("upstream", "", st, stText, body)
\* XMLValidator's err object, with its code
ValidatorDetails(code) == Details("validator", code, 0, "", "")

\* if (details)
DetailsTruthy(d) == d.kind # "null" /\ ~(d.kind = "string" /\ d.text = "")

Data(kind, value, quads) == [kind |-> kind, value |-> value, quads |-> quads]
NoData == Data("none", "", <<>>)

Envelope(status, success, error, hasDetails, details, hasData, data) ==
    [status |-> status, success |-> success, error |-> error,
     hasDetails |-> hasDetails, details |-> details,
     hasData |-> hasData, data |-> data]

errorResponse(message, status, details) ==
    Envelope(status, FALSE, message, DetailsTruthy(details),
             IF DetailsTruthy(details) THEN details ELSE NullDetails,
             FALSE, NoData)

\* NextResponse.json({ success: true, data }): the status defaults to 200
successResponse(data) ==
    Envelope(200, TRUE, "", FALSE, NullDetails, TRUE, data)

\* what a stage hands on: it went through, or it returned a response
Through(value) == [ok |-> TRUE, value |-> value, response |-> successResponse(NoData)]
Returned(response, value) == [ok |-> FALSE, value |-> value, response |-> response]

-----------------------------------------------------------------------------
(* Stage 1: input validation.                                              *)

\* ValidateInput without the comparison of dataType with the route's format
ValidateInputAnyType(r, q, h) ==
    IF ~Truthy(q.apiUrl)
    THEN Returned(errorResponse("Missing 'apiUrl' in request body.", 400, NullDetails), 0)
    ELSE IF ~Truthy(q.dataType)
    THEN Returned(errorResponse("Missing 'dataType' in request body.", 400, NullDetails), 0)
    ELSE IF r = "rdf" /\ ~h.rdfParserInstance
    THEN Returned(errorResponse("RDF parser instance not available.", 500, NullDetails), 0)
    ELSE IF r = "rdf" /\ ~h.actualUsableArrayifyStream
    THEN Returned(errorResponse("actualUsableArrayifyStream function not available.",
                                500, NullDetails), 0)
    ELSE Through(0)

\* ValidateInput with dataType checked before apiUrl
ValidateInputTypeFirst(r, q, h) ==
    IF ~Truthy(q.dataType)
    THEN Returned(errorResponse("Missing 'dataType' in request body.", 400, NullDetails), 0)
    ELSE IF q.dataType # r
    THEN Returned(errorResponse("Invalid 'dataType'. Expected '" \o r \o "', got '"
                                \o q.dataType \o "'.", 400, NullDetails), 0)
    ELSE IF ~Truthy(q.apiUrl)
    THEN Returned(errorResponse("Missing 'apiUrl' in request body.", 400, NullDetails), 0)
    ELSE IF r = "rdf" /\ ~h.rdfParserInstance
    THEN Returned(errorResponse("RDF parser instance not available.", 500, NullDetails), 0)
    ELSE IF r = "rdf" /\ ~h.actualUsableArrayifyStream
    THEN Returned(errorResponse("actualUsableArrayifyStream function not available.",
                                500, NullDetails), 0)
    ELSE Through(0)

\* ValidateInput without the two checks of the library handles
ValidateInputUnchecked(r, q, h) ==
    IF ~Truthy(q.apiUrl)
    THEN Returned(errorResponse("Missing 'apiUrl' in request body.", 400, NullDetails), 0)
    ELSE IF ~Truthy(q.dataType)
    THEN Returned(errorResponse("Missing 'dataType' in request body.", 400, NullDetails), 0)
    ELSE IF q.dataType # r
    THEN Returned(errorResponse("Invalid 'dataType'. Expected '" \o r \o "', got '"
                                \o q.dataType \o "'.", 400, NullDetails), 0)
    ELSE Through(0)

\* if (!apiUrl) ... if (!dataType) ... if (dataType !== "<route>") ...
\* and, in the rdf route, the two checks of the library handles
ValidateInput(r, q, h) ==
    IF ~Truthy(q.apiUrl)
    THEN Returned(errorResponse("Missing 'apiUrl' in request body.", 400, NullDetails), 0)
    ELSE IF ~Truthy(q.dataType)
    THEN Returned(errorResponse("Missing 'dataType' in request body.", 400, NullDetails), 0)
    ELSE IF q.dataType # r
    THEN Returned(errorResponse("Invalid 'dataType'. Expected '" \o r \o "', got '"
                                \o q.dataType \o "'.", 400, NullDetails), 0)
    ELSE IF r = "rdf" /\ ~h.rdfParserInstance
    THEN Returned(errorResponse("RDF parser instance not available.", 500, NullDetails), 0)
    ELSE IF r = "rdf" /\ ~h.actualUsableArrayifyStream
    THEN Returned(errorResponse("actualUsableArrayifyStream function not available.",
                                500, NullDetails), 0)
    ELSE Through(0)

\* const { method = "GET", ... } = requestData
MethodOf(q) == IF q.method = Undefined THEN "GET" ELSE q.method

\* headers: { "Content-Type": "application/json", ...customHeaders }
\* MergeHeaders with the default written after the spread: the default wins
MergeHeadersDefaultLast(custom) ==
    [n \in {"Content-Type"} \cup DOMAIN custom |->
        IF n = "Content-Type" THEN AppJson ELSE custom[n]]

\* headers: { "Content-Type": "application/json", ...customHeaders }
MergeHeaders(custom) ==
    [n \in {"Content-Type"} \cup DOMAIN custom |->
        IF n \in DOMAIN custom THEN custom[n] ELSE AppJson]

\* const fetchOptions = { method, headers: {...} }
InitialFetchOptions(q) ==
    [method |-> MethodOf(q), headers |-> MergeHeaders(q.headers),
     hasBody |-> FALSE, body |-> Undefined]

\* SetHeader that keeps the value a header already has
SetHeaderUnlessPresent(headers, name, value) ==
    [n \in DOMAIN headers \cup {name} |-> IF n \in DOMAIN headers THEN headers[n] ELSE value]

\* fetchOptions.headers[name] = value
SetHeader(headers, name, value) ==
    [n \in DOMAIN headers \cup {name} |-> IF n = name THEN value ELSE headers[n]]

-----------------------------------------------------------------------------
(* Stage 2: authentication.                                                *)

Basic == <<"B","a","s","i","c"," ">>
Bearer == <<"B","e","a","r","e","r"," ">>

\* the messages of the rdf route are the short ones
AuthMessage(r, long, short) == IF r = "rdf" THEN short ELSE long

\* `${prefix}${credentials.key}`, the prefix "" when it is falsy
ApiKeyHeader(c) == (IF TruthyS(c.prefix) THEN c.prefix ELSE <<>>) \o ToStringS(c.key)

\* `Bearer ${credentials.token}`
BearerHeader(c) == Bearer \o ToStringS(c.token)

\* BasicHeader without the base64 encoding
BasicHeaderPlain(c) ==
    Basic \o ToStringS(c.username) \o <<":">> \o ToStringS(c.password)

\* `Basic ${Buffer.from(`${username}:${password}`).toString("base64")}`
BasicHeader(c) ==
    Basic \o Base64(Bytes(ToStringS(c.username) \o <<":">> \o ToStringS(c.password)))

\* ApiKeyInvalid with && for ||
ApiKeyInvalidBoth(c) == ~TruthyS(c.key) /\ ~Truthy(c.headerName)

\* if (!credentials.key || !credentials.headerName)
ApiKeyInvalid(c) == ~TruthyS(c.key) \/ ~Truthy(c.headerName)

\* if (!credentials.token)
BearerInvalid(c) == ~TruthyS(c.token)

\* BasicInvalid with the password tested for truthiness
BasicInvalidFalsy(c) == ~TruthyS(c.username) \/ ~TruthyS(c.password)

\* if (!credentials.username || typeof credentials.password === 'undefined')
BasicInvalid(c) == ~TruthyS(c.username) \/ c.password = UndefinedS

\* UnsupportedType as a default case that breaks: no header, no error
UnsupportedTypeBreak(a, headers) == Through(headers)

\* default: return errorResponse(`Unsupported authentication type: '${type}'.`, 400)
UnsupportedType(a, headers) ==
    Returned(errorResponse("Unsupported authentication type: '" \o a.type \o "'.",
                           400, NullDetails), headers)

\* Authenticate that sets an empty Authorization header when none is asked for
AuthenticateAnonymous(r, a, headers) ==
    IF ~a.given THEN Through(SetHeader(headers, "Authorization", <<>>))
    ELSE IF ~Truthy(a.type) \/ ~a.hasCredentials
    THEN Returned(errorResponse(
            AuthMessage(r, "Invalid 'authentication' object. Missing 'type' or 'credentials'.",
                           "Invalid 'authentication' object."), 400, NullDetails), headers)
    ELSE CASE a.type = "apiKey" ->
                IF ApiKeyInvalid(a)
                THEN Returned(errorResponse(
                        AuthMessage(r, "Invalid 'apiKey' credentials. Missing 'key' or 'headerName'.",
                                       "Invalid 'apiKey' credentials."), 400, NullDetails), headers)
                ELSE Through(SetHeader(headers, a.headerName, ApiKeyHeader(a)))
           [] a.type = "bearerToken" ->
                IF BearerInvalid(a)
                THEN Returned(errorResponse(
                        AuthMessage(r, "Invalid 'bearerToken' credentials. Missing 'token'.",
                                       "Invalid 'bearerToken' credentials."), 400, NullDetails), headers)
                ELSE Through(SetHeader(headers, "Authorization", BearerHeader(a)))
           [] a.type = "basicAuth" ->
                IF BasicInvalid(a)
                THEN Returned(errorResponse(
                        AuthMessage(r, "Invalid 'basicAuth' credentials. Missing 'username' or 'password'.",
                                       "Invalid 'basicAuth' credentials."), 400, NullDetails), headers)
                ELSE Through(SetHeader(headers, "Authorization", BasicHeader(a)))
           [] OTHER -> UnsupportedType(a, headers)

\* Authenticate with the rdf route missing the check of the bearer token
AuthenticateRdfUnchecked(r, a, headers) ==
    IF ~a.given THEN Through(headers)
    ELSE IF ~Truthy(a.type) \/ ~a.hasCredentials
    THEN Returned(errorResponse(
            AuthMessage(r, "Invalid 'authentication' object. Missing 'type' or 'credentials'.",
                           "Invalid 'authentication' object."), 400, NullDetails), headers)
    ELSE CASE a.type = "apiKey" ->
                IF ApiKeyInvalid(a)
                THEN Returned(errorResponse(
                        AuthMessage(r, "Invalid 'apiKey' credentials. Missing 'key' or 'headerName'.",
                                       "Invalid 'apiKey' credentials."), 400, NullDetails), headers)
                ELSE Through(SetHeader(headers, a.headerName, ApiKeyHeader(a)))
           [] a.type = "bearerToken" ->
                IF BearerInvalid(a) /\ r # "rdf"
                THEN Returned(errorResponse(
                        AuthMessage(r, "Invalid 'bearerToken' credentials. Missing 'token'.",
                                       "Invalid 'bearerToken' credentials."), 400, NullDetails), headers)
                ELSE Through(SetHeader(headers, "Authorization", BearerHeader(a)))
           [] a.type = "basicAuth" ->
                IF BasicInvalid(a)
                THEN Returned(errorResponse(
                        AuthMessage(r, "Invalid 'basicAuth' credentials. Missing 'username' or 'password'.",
                                       "Invalid 'basicAuth' credentials."), 400, NullDetails), headers)
                ELSE Through(SetHeader(headers, "Authorization", BasicHeader(a)))
           [] OTHER -> UnsupportedType(a, headers)

\* if (authentication) { ... switch (type) ... }: the headers with the
\* authentication header set, or a 400
Authenticate(r, a, headers) ==
    IF ~a.given THEN Through(headers)
    ELSE IF ~Truthy(a.type) \/ ~a.hasCredentials
    THEN Returned(errorResponse(
            AuthMessage(r, "Invalid 'authentication' object. Missing 'type' or 'credentials'.",
                           "Invalid 'authentication' object."), 400, NullDetails), headers)
    ELSE CASE a.type = "apiKey" ->
                IF ApiKeyInvalid(a)
                THEN Returned(errorResponse(
                        AuthMessage(r, "Invalid 'apiKey' credentials. Missing 'key' or 'headerName'.",
                                       "Invalid 'apiKey' credentials."), 400, NullDetails), headers)
                ELSE Through(SetHeader(headers, a.headerName, ApiKeyHeader(a)))
           [] a.type = "bearerToken" ->
                IF BearerInvalid(a)
                THEN Returned(errorResponse(
                        AuthMessage(r, "Invalid 'bearerToken' credentials. Missing 'token'.",
                                       "Invalid 'bearerToken' credentials."), 400, NullDetails), headers)
                ELSE Through(SetHeader(headers, "Authorization", BearerHeader(a)))
           [] a.type = "basicAuth" ->
                IF BasicInvalid(a)
                THEN Returned(errorResponse(
                        AuthMessage(r, "Invalid 'basicAuth' credentials. Missing 'username' or 'password'.",
                                       "Invalid 'basicAuth' credentials."), 400, NullDetails), headers)
                ELSE Through(SetHeader(headers, "Authorization", BasicHeader(a)))
           [] OTHER -> UnsupportedType(a, headers)

-----------------------------------------------------------------------------
(* The outbound body.                                                      *)

\* CarriesBody with the method compared in upper case and the body not tested
CarriesBodyAnyCase(q) ==
    q.body # Undefined /\ MethodOf(q) \in {"POST", "PUT", "PATCH", "post", "put", "patch"}

\* requestBody && (method === "POST" || method === "PUT" || method === "PATCH")
CarriesBody(q) == Truthy(q.body) /\ MethodOf(q) \in {"POST", "PUT", "PATCH"}

\* JSON.stringify of the object body {key: "value"}
JsonStringify(body) == "{\"key\":\"value\"}"

\* fetchOptions.headers['Content-Type']?.toLowerCase().includes('json')
ContentTypeIsJson(headers) == Includes(ToLowerCase(headers["Content-Type"]), JsonWord)

WithBody(fo, body) == [fo EXCEPT !.hasBody = TRUE, !.body = body]

\* the json route stringifies every body that is no string; the xml and
\* rdf routes only under a JSON Content-Type, and answer 400 otherwise
PrepareBody(r, q, fo) ==
    IF ~CarriesBody(q) THEN Through(fo)
    ELSE IF IsString(q.body) THEN Through(WithBody(fo, q.body))
    ELSE IF r = "json" \/ ContentTypeIsJson(fo.headers)
    THEN Through(WithBody(fo, JsonStringify(q.body)))
    ELSE Returned(errorResponse(
            IF r = "xml"
            THEN "Request body must be a string for non-JSON content types, or if 'Content-Type' is not 'application/json'."
            ELSE "Request body must be a string for non-JSON content types or if 'Content-Type' is not 'application/json'.",
            400, NullDetails), fo)

-----------------------------------------------------------------------------
(* Stage 3: the outbound call and what the upstream answers.               *)

StatusText(st) ==
    CASE st = 200 -> "OK"
      [] st = 201 -> "Created"
      [] st = 304 -> "Not Modified"
      [] st = 401 -> "Unauthorized"
      [] st = 403 -> "Forbidden"
      [] OTHER -> "Service Unavailable"

UpstreamStatuses == {200, 201, 304, 401, 403, 503}

GoodJson == "{\"message\":\"Success!\"}"
NullJson == "null"
BadJson == "This is not JSON"
GoodXml == "<root><item>Test</item></root>"
\* a closing tag is missing: XMLValidator reports InvalidTag
MalformedXml == "<root><item>Test</item><item>Data</root"
\* well-formed for XMLValidator, and XMLParser throws on it
UnparseableXml == "<root>unparseable under the given options</root>"
Turtle == "<http://example.org/book/book1> dc:title \"A Book Title\" ."
ErrorText == "Error: Server unavailable"
\* the body of a non-success response: a 304 has none
ErrorBodyOf(st) == IF st = 304 THEN "" ELSE ErrorText

\* the bodies an upstream answers a success status with
UpstreamBodies(r) ==
    CASE r = "json" -> {GoodJson, NullJson, BadJson}
      [] r = "xml" -> {GoodXml, MalformedXml, UnparseableXml}
      [] r = "rdf" -> {Turtle}

\* the Content-Type header of the upstream's response is read by the rdf route alone
UpstreamContentTypes(r) ==
    IF r = "rdf" THEN {Undefined, "application/octet-stream"} ELSE {Undefined}

Upstream(st, ct, body) ==
    [status |-> st, statusText |-> StatusText(st), contentType |-> ct, body |-> body]

NoUpstream == Upstream(0, Undefined, "")

\* ResponseOk that takes every status below 400 for a success
ResponseOkBelow400(st) == st < 400

\* Response.ok
ResponseOk(st) == st >= 200 /\ st <= 299

UpstreamResponses(r) ==
    { Upstream(st, ct, body) :
        st \in {x \in UpstreamStatuses : ResponseOk(x)},
        ct \in UpstreamContentTypes(r), body \in UpstreamBodies(r) }
    \cup { Upstream(st, Undefined, ErrorBodyOf(st)) :
             st \in {x \in UpstreamStatuses : ~ResponseOk(x)} }

\* networkError.message
NetworkErrors == {"Network failure", ""}

\* AfterFetch without the check of externalApiResponse.ok
AfterFetchUnchecked(r, u) == IF r = "json" THEN "ParsingJson" ELSE "ReadingText"

\* if (!externalApiResponse.ok): where the handler goes once fetch resolved
AfterFetch(r, u) ==
    IF ~ResponseOk(u.status) THEN "ReadingErrorBody"
    ELSE IF r = "json" THEN "ParsingJson"
    ELSE "ReadingText"

\* UpstreamFailure that normalizes every non-success status to 502
UpstreamFailureNormalized(u, errorBody) ==
    errorResponse("External API request failed.", 502,
                  UpstreamDetails(u.status, u.statusText, errorBody))

\* the response to an upstream non-success status: 401 and 403 pass through
UpstreamFailure(u, errorBody) ==
    IF u.status = 401 \/ u.status = 403
    THEN errorResponse("Authentication failed with external API.", u.status,
                       UpstreamDetails(u.status, u.statusText, errorBody))
    ELSE errorResponse("External API request failed.", 502,
                       UpstreamDetails(u.status, u.statusText, errorBody))

-----------------------------------------------------------------------------
(* Stage 4: parsing.                                                       *)

\* JSON.parse, as Response.json() applies it to the text it read: the value,
\* written as a JavaScript literal, or the SyntaxError's message
JsonParse(text) ==
    CASE text = GoodJson -> [ok |-> TRUE, value |-> "{ message: 'Success!' }", message |-> ""]
      [] text = NullJson -> [ok |-> TRUE, value |-> Null, message |-> ""]
      [] OTHER -> [ok |-> FALSE, value |-> Undefined,
                   message |-> "Unexpected token T in JSON at position 0"]

\* JsonOutcome that hands on the text of the body in place of its value
JsonOutcomeRawText(body, readOk) ==
    IF ~readOk
    THEN errorResponse("Failed to parse JSON response from external API.", 422,
                       StringDetails("Failed to read body"))
    ELSE IF JsonParse(body).ok
    THEN successResponse(Data("json", body, <<>>))
    ELSE errorResponse("Failed to parse JSON response from external API.", 422,
                       StringDetails(JsonParse(body).message))

\* jsonData = await externalApiResponse.json() in its try: the one catch takes
\* the rejection of a body that cannot be read and that of a body that does
\* not parse
JsonOutcome(body, readOk) ==
    IF ~readOk
    THEN errorResponse("Failed to parse JSON response from external API.", 422,
                       StringDetails("Failed to read body"))
    ELSE IF JsonParse(body).ok
    THEN successResponse(Data("json", JsonParse(body).value, <<>>))
    ELSE errorResponse("Failed to parse JSON response from external API.", 422,
                       StringDetails(JsonParse(body).message))

\* XMLValidator.validate(xmlText): true, or { err: { code, msg, line, col } }
XmlValidate(text) ==
    IF text = MalformedXml
    THEN [valid |-> FALSE, code |-> "InvalidTag"]
    ELSE [valid |-> TRUE, code |-> ""]

\* new XMLParser(xmlParserOptions).parse(xmlText): the object, written as a
\* JavaScript literal, or the message of what it throws
XmlParse(text) ==
    CASE text = GoodXml -> [ok |-> TRUE, value |-> "{ root: { item: 'Test' } }", message |-> ""]
      [] text = MalformedXml ->
            [ok |-> TRUE, value |-> "{ root: { item: [ 'Test', 'Data' ] } }", message |-> ""]
      [] OTHER -> [ok |-> FALSE, value |-> Undefined, message |-> "Simulated parsing crash"]

\* XmlOutcome without the validation: the parser is lenient with a missing tag
XmlOutcomeUnvalidated(text) ==
    IF XmlParse(text).ok
    THEN successResponse(Data("xml", XmlParse(text).value, <<>>))
    ELSE errorResponse("Failed to parse XML response from external API.", 422,
                       StringDetails(XmlParse(text).message))

\* 5. Parsing the XML response: validate, return the 422 of a failed
\* validation, parse, catch
XmlOutcome(text) ==
    IF ~XmlValidate(text).valid
    THEN errorResponse("Failed to validate XML response: Malformed XML.", 422,
                       ValidatorDetails(XmlValidate(text).code))
    ELSE IF XmlParse(text).ok
    THEN successResponse(Data("xml", XmlParse(text).value, <<>>))
    ELSE errorResponse("Failed to parse XML response from external API.", 422,
                       StringDetails(XmlParse(text).message))

\* XmlCalls with the parser run whatever the validator found
XmlCallsParseAlways(text) == <<"XMLValidator.validate", "XMLParser.parse">>

\* the library calls of that block, in the order it makes them
XmlCalls(text) ==
    <<"XMLValidator.validate">>
    \o (IF XmlValidate(text).valid THEN <<"XMLParser.parse">> ELSE <<>>)

\* the 500 of a response body that cannot be read as text
TextFailure(r) ==
    errorResponse(IF r = "xml"
                  THEN "Failed to read text response from external API for XML parsing."
                  ELSE "Failed to read text response from external API for RDF parsing.",
                  500, StringDetails("Failed to read text"))

\* RdfContentType with the upstream's header before the request's override
RdfContentTypeHeaderFirst(q, u) ==
    IF Truthy(u.contentType) THEN u.contentType
    ELSE IF Truthy(q.rdfContentType) THEN q.rdfContentType
    ELSE Undefined

\* rdfOptions?.contentType || externalApiResponse.headers.get("content-type") || undefined
RdfContentType(q, u) ==
    IF Truthy(q.rdfContentType) THEN q.rdfContentType
    ELSE IF Truthy(u.contentType) THEN u.contentType
    ELSE Undefined

\* const parseOptions = { contentType, baseIRI: rdfOptions?.baseIRI }; the
\* requests of the model give no baseIRI
ParseOptions(contentType) == [given |-> TRUE, contentType |-> contentType]
NoParseOptions == [given |-> FALSE, contentType |-> Undefined]

\* RdfWarning that warns whenever the request gives no override
RdfWarningNoOverride(q, u) ==
    IF ~Truthy(q.rdfContentType) THEN <<"console.warn">> ELSE <<>>

\* if (!contentType) console.warn(...)
RdfWarning(q, u) ==
    IF ~Truthy(RdfContentType(q, u)) THEN <<"console.warn">> ELSE <<>>

\* open: parse returned the stream; emitted: the quads of its 'data' events;
\* array: arrayifyStream's array; errors: its 'error' events; ended: 'end' was
\* emitted; inner: arrayifyStream's promise; outer: the awaited promise;
\* microtasks: the pending reactions of inner; first: which of 'error' and
\* 'end' came first; errorAfter: the quads emitted before the first 'error'
Stream(open, emitted, array, errors, ended, inner, outer, microtasks, first, errorAfter) ==
    [open |-> open, emitted |-> emitted, array |-> array, errors |-> errors,
     ended |-> ended, inner |-> inner, outer |-> outer,
     microtasks |-> microtasks, first |-> first, errorAfter |-> errorAfter]

NoStream == Stream(FALSE, <<>>, <<>>, 0, FALSE, "pending", "pending", <<>>, "none", -1)

\* Settle that lets a later resolve or reject win
SettleAgain(promise, outcome) == outcome

\* a promise settles once: resolve and reject of a settled promise do nothing
Settle(promise, outcome) == IF promise = "pending" THEN outcome ELSE promise

\* OnError of a stream no listener rejects on: the event is only counted
OnErrorUnheard(s) ==
    [s EXCEPT !.errors = @ + 1,
              !.first = IF @ = "none" THEN "error" ELSE @,
              !.errorAfter = IF s.errors = 0 THEN Len(s.emitted) ELSE @]

\* quadStream.on('error', ...) runs reject(error) at once; arrayifyStream's own
\* listener rejects its promise, whose .catch(reject) runs as a microtask
OnError(s) ==
    [s EXCEPT !.errors = @ + 1,
              !.outer = Settle(@, "rejected"),
              !.inner = Settle(@, "rejected"),
              !.microtasks = IF s.inner = "pending" THEN Append(@, "rejected") ELSE @,
              !.first = IF @ = "none" THEN "error" ELSE @,
              !.errorAfter = IF s.errors = 0 THEN Len(s.emitted) ELSE @]

\* arrayifyStream resolves its promise with the array on 'end'; its
\* .then(resolve) runs as a microtask
OnEnd(s) ==
    [s EXCEPT !.ended = TRUE,
              !.inner = Settle(@, "resolved"),
              !.microtasks = IF s.inner = "pending" THEN Append(@, "resolved") ELSE @,
              !.first = IF @ = "none" THEN "end" ELSE @]

\* OnData with a collector that puts each quad in front of the array
OnDataUnshift(s, quad) ==
    [s EXCEPT !.emitted = Append(@, quad), !.array = <<quad>> \o @]

\* arrayifyStream pushes every quad of a 'data' event
OnData(s, quad) ==
    [s EXCEPT !.emitted = Append(@, quad), !.array = Append(@, quad)]

\* .then(resolve).catch(reject), run from the microtask queue
OnMicrotask(s) ==
    [s EXCEPT !.outer = Settle(@, Head(s.microtasks)),
              !.microtasks = Tail(@)]

\* the response once the awaited promise has settled
RdfOutcome(s) ==
    IF s.outer = "resolved"
    THEN successResponse(Data("quads", "", s.array))
    ELSE errorResponse("Failed to parse RDF response from external API: Unexpected token",
                       422, StringDetails("Error: Unexpected token at N3Lexer"))

-----------------------------------------------------------------------------
(* The handler: export async function POST(request).                       *)

\* the body of a request to the nerdgraph route: what request.json() gives
NerdgraphBody(kind, visualizations) == [kind |-> kind, visualizations |-> visualizations]
\* the visualizations of a body: absent, null, an array of NRQL queries, or
\* a non-empty string (truthy, and no array)
Visualizations(kind, items) == [kind |-> kind, items |-> items]
NoNerdgraphBody == NerdgraphBody("object", Visualizations("absent", <<>>))

\* the upstream's answer to the GraphQL call
NerdgraphUpstream(status, statusText, parses) ==
    [status |-> status, statusText |-> statusText, parses |-> parses]
NoNerdgraphUpstream == NerdgraphUpstream(0, "", FALSE)

\* one invocation of the nerdgraph route's POST, with the two constants the
\* module read from process.env when it was loaded
NerdgraphHandler(pc_, accountId, userKey, body) ==
    [pc |-> pc_, ACCOUNT_ID |-> accountId, NR_USER_KEY |-> userKey, body |-> body,
     bodyRead |-> FALSE, calls |-> <<>>, upstream |-> NoNerdgraphUpstream,
     responses |-> <<>>, threw |-> FALSE]

\* the Dashboard component as mounted: useState("") for message, false for
\* loading, [] for responseMessages, {} for data; no handleKeyPress pending
Mounted ==
    [message |-> <<>>, loading |-> FALSE, responseMessages |-> "[]", data |-> "{}",
     pc |-> "Idle", calls |-> <<>>, keys |-> <<>>, content |-> "none", threw |-> FALSE]

NoFetchOptions ==
    [method |-> Undefined, headers |-> NoHeaders, hasBody |-> FALSE, body |-> Undefined]

Init ==
    /\ route \in Routes
    /\ req \in Requests(route)
    /\ handles \in Handles(route)
    /\ pc = "ReadingBody"
    /\ stages = <<>>
    /\ fetchOptions = NoFetchOptions
    /\ fetchCalls = <<>>
    /\ upstream = NoUpstream
    /\ stream = NoStream
    /\ warned = FALSE
    /\ responses = <<>>
    /\ threw = FALSE
    /\ networkError = Undefined
    /\ bodyRead = "unread"
    /\ parserCalls = <<>>
    /\ parseOptions = NoParseOptions
    /\ running = 1
    /\ parked = <<>>
    /\ ng = NerdgraphHandler("Idle", Undefined, Undefined, NoNerdgraphBody)
    /\ ui = Mounted

\* return <response>
Return(response) ==
    /\ responses' = Append(responses, response)
    /\ pc' = "Done"

\* requestData = await request.json(), and the destructuring of requestData
ReadBody ==
    /\ pc = "ReadingBody"
    /\ stages' = Append(stages, "validate")
    /\ CASE req.bodyKind = "malformed" ->
              /\ Return(errorResponse("Invalid JSON in request body.", 400,
                                      StringDetails("Unexpected end of JSON input")))
              /\ UNCHANGED threw
         [] req.bodyKind = "null" ->
              \* const { apiUrl, ... } = null throws a TypeError no try encloses
              /\ threw' = TRUE
              /\ pc' = "Done"
              /\ UNCHANGED responses
         [] OTHER ->
              /\ pc' = "Validating"
              /\ UNCHANGED <<responses, threw>>
    /\ UNCHANGED <<route, req, handles, running, parked, ng, ui, parseOptions, networkError, bodyRead, parserCalls, fetchOptions, fetchCalls, upstream, stream, warned>>

\* 1. Input Validation, and "Prepare fetch options"
Validate ==
    /\ pc = "Validating"
    /\ LET v == ValidateInput(route, req, handles)
       IN  IF v.ok
           THEN /\ fetchOptions' = InitialFetchOptions(req)
                /\ pc' = "Authenticating"
                /\ UNCHANGED responses
           ELSE /\ Return(v.response)
                /\ UNCHANGED fetchOptions
    /\ UNCHANGED <<route, req, handles, running, parked, ng, ui, parseOptions, networkError, bodyRead, parserCalls, stages, fetchCalls, upstream, stream, warned, threw>>

\* 2. Authentication
AuthenticateStage ==
    /\ pc = "Authenticating"
    /\ stages' = Append(stages, "authenticate")
    /\ LET a == Authenticate(route, req.authentication, fetchOptions.headers)
       IN  IF a.ok
           THEN /\ fetchOptions' = [fetchOptions EXCEPT !.headers = a.value]
                /\ pc' = "PreparingBody"
                /\ UNCHANGED responses
           ELSE /\ Return(a.response)
                /\ UNCHANGED fetchOptions
    /\ UNCHANGED <<route, req, handles, running, parked, ng, ui, parseOptions, networkError, bodyRead, parserCalls, fetchCalls, upstream, stream, warned, threw>>

\* "Add body for methods that support it"
PrepareBodyStage ==
    /\ pc = "PreparingBody"
    /\ LET b == PrepareBody(route, req, fetchOptions)
       IN  IF b.ok
           THEN /\ fetchOptions' = b.value
                /\ pc' = "Dispatching"
                /\ UNCHANGED responses
           ELSE /\ Return(b.response)
                /\ UNCHANGED fetchOptions
    /\ UNCHANGED <<route, req, handles, running, parked, ng, ui, parseOptions, networkError, bodyRead, parserCalls, stages, fetchCalls, upstream, stream, warned, threw>>

\* 3. externalApiResponse = await fetch(apiUrl, fetchOptions): the call
Dispatch ==
    /\ pc = "Dispatching"
    /\ stages' = Append(stages, "dispatch")
    /\ fetchCalls' = Append(fetchCalls, [url |-> req.apiUrl, options |-> fetchOptions])
    /\ pc' = "AwaitingFetch"
    /\ UNCHANGED <<route, req, handles, running, parked, ng, ui, parseOptions, networkError, bodyRead, parserCalls, fetchOptions, upstream, stream, warned, responses, threw>>

\* FetchRejects with a catch that issues the call again
FetchRejectsRetry ==
    /\ pc = "AwaitingFetch"
    /\ \E message \in NetworkErrors : networkError' = message
    /\ pc' = "Dispatching"
    /\ UNCHANGED <<route, req, handles, running, parked, ng, ui, parseOptions, bodyRead, parserCalls, stages,
                   fetchOptions, fetchCalls, upstream, stream, warned, responses, threw>>

\* fetch rejects: catch (networkError)
FetchRejects ==
    /\ pc = "AwaitingFetch"
    /\ \E message \in NetworkErrors :
          /\ networkError' = message
          /\ Return(errorResponse("External API request failed (network error).", 502,
                                  StringDetails(message)))
    /\ UNCHANGED <<route, req, handles, running, parked, ng, ui, parseOptions, bodyRead, parserCalls, stages, fetchOptions, fetchCalls, upstream,
                   stream, warned, threw>>

\* fetch resolves, and the handler checks externalApiResponse.ok
FetchResolves ==
    /\ pc = "AwaitingFetch"
    /\ \E u \in UpstreamResponses(route) :
          /\ upstream' = u
          /\ pc' = AfterFetch(route, u)
          /\ stages' = IF AfterFetch(route, u) = "ParsingJson"
                       THEN Append(stages, "parse") ELSE stages
    /\ UNCHANGED <<route, req, handles, running, parked, ng, ui, parseOptions, networkError, bodyRead, parserCalls, fetchOptions, fetchCalls, stream, warned,
                   responses, threw>>

\* ErrorBodyRead without the try around text(): the read failure is reported
ErrorBodyReadUncaught ==
    /\ pc = "ReadingErrorBody"
    /\ \E readOk \in BOOLEAN :
          /\ bodyRead' = IF readOk THEN "read" ELSE "failed"
          /\ Return(IF readOk THEN UpstreamFailure(upstream, upstream.body)
                    ELSE errorResponse("Failed to read response from external API.", 500,
                                       StringDetails("Failed to read body")))
    /\ UNCHANGED <<route, req, handles, running, parked, ng, ui, parseOptions, networkError, parserCalls, stages, fetchOptions, fetchCalls, upstream,
                   stream, warned, threw>>

\* errorBody = await externalApiResponse.text(), null when the read fails
ErrorBodyRead ==
    /\ pc = "ReadingErrorBody"
    /\ \E readOk \in BOOLEAN :
          /\ bodyRead' = IF readOk THEN "read" ELSE "failed"
          /\ Return(UpstreamFailure(upstream, IF readOk THEN upstream.body ELSE Null))
    /\ UNCHANGED <<route, req, handles, running, parked, ng, ui, parseOptions, networkError, parserCalls, stages, fetchOptions, fetchCalls, upstream,
                   stream, warned, threw>>

\* 4. jsonData = await externalApiResponse.json()
JsonSettles ==
    /\ pc = "ParsingJson"
    /\ \E readOk \in BOOLEAN :
          /\ bodyRead' = IF readOk THEN "read" ELSE "failed"
          /\ Return(JsonOutcome(upstream.body, readOk))
    /\ parserCalls' = Append(parserCalls, "Response.json")
    /\ UNCHANGED <<route, req, handles, running, parked, ng, ui, parseOptions, networkError, stages, fetchOptions, fetchCalls, upstream,
                   stream, warned, threw>>

\* xmlText / rdfText = await externalApiResponse.text() fails
TextRejects ==
    /\ pc = "ReadingText"
    /\ bodyRead' = "failed"
    /\ Return(TextFailure(route))
    /\ UNCHANGED <<route, req, handles, running, parked, ng, ui, parseOptions, networkError, parserCalls, stages, fetchOptions, fetchCalls, upstream,
                   stream, warned, threw>>

\* the xml route read the text: 5. Parsing the XML response
XmlParses ==
    /\ pc = "ReadingText"
    /\ route = "xml"
    /\ stages' = Append(stages, "parse")
    /\ bodyRead' = "read"
    /\ parserCalls' = parserCalls \o XmlCalls(upstream.body)
    /\ Return(XmlOutcome(upstream.body))
    /\ UNCHANGED <<route, req, handles, running, parked, ng, ui, parseOptions, networkError, fetchOptions, fetchCalls, upstream, stream,
                   warned, threw>>

\* the rdf route read the text: it warns when no content type is known, calls
\* rdfParserInstance.parse inside the promise's executor and attaches the
\* 'error' listener and arrayifyStream.  parse throws when it is given no
\* content type it can use, and the executor's throw rejects the promise.
RdfParseStarts ==
    /\ pc = "ReadingText"
    /\ route = "rdf"
    /\ stages' = Append(stages, "parse")
    /\ warned' = (RdfWarning(req, upstream) # <<>>)
    /\ parseOptions' = ParseOptions(RdfContentType(req, upstream))
    /\ \E parseThrows \in {FALSE, ~Truthy(RdfContentType(req, upstream))} :
          /\ stream' = IF parseThrows
                       THEN [NoStream EXCEPT !.outer = "rejected", !.first = "error"]
                       ELSE [NoStream EXCEPT !.open = TRUE]
          /\ parserCalls' = parserCalls \o RdfWarning(req, upstream)
                               \o <<"rdfParserInstance.parse">>
                               \o (IF parseThrows THEN <<>> ELSE <<"arrayifyStream">>)
    /\ bodyRead' = "read"
    /\ pc' = "ParsingRdf"
    /\ UNCHANGED <<route, req, handles, running, parked, ng, ui, networkError, fetchOptions, fetchCalls, upstream, responses, threw>>

\* the quad stream emits 'data'
StreamData ==
    /\ pc = "ParsingRdf"
    /\ stream.open /\ ~stream.ended
    /\ Len(stream.emitted) < MaxQuads
    /\ stream' = OnData(stream, Len(stream.emitted) + 1)
    /\ UNCHANGED <<route, req, handles, running, parked, ng, ui, parseOptions, networkError, bodyRead, parserCalls, pc, stages, fetchOptions, fetchCalls, upstream,
                   warned, responses, threw>>

\* the quad stream emits 'error'; rdf-parse emits it on a stream it leaves open
StreamError ==
    /\ pc = "ParsingRdf"
    /\ stream.open
    /\ stream.errors < MaxErrorEvents
    /\ stream' = OnError(stream)
    /\ UNCHANGED <<route, req, handles, running, parked, ng, ui, parseOptions, networkError, bodyRead, parserCalls, pc, stages, fetchOptions, fetchCalls, upstream,
                   warned, responses, threw>>

\* the quad stream emits 'end'
StreamEnd ==
    /\ pc = "ParsingRdf"
    /\ stream.open /\ ~stream.ended
    /\ stream' = OnEnd(stream)
    /\ UNCHANGED <<route, req, handles, running, parked, ng, ui, parseOptions, networkError, bodyRead, parserCalls, pc, stages, fetchOptions, fetchCalls, upstream,
                   warned, responses, threw>>

\* the microtask queue runs the next reaction of arrayifyStream's promise
Microtask ==
    /\ pc = "ParsingRdf"
    /\ stream.microtasks # <<>>
    /\ stream' = OnMicrotask(stream)
    /\ UNCHANGED <<route, req, handles, running, parked, ng, ui, parseOptions, networkError, bodyRead, parserCalls, pc, stages, fetchOptions, fetchCalls, upstream,
                   warned, responses, threw>>

\* rdfQuadsArray = await new Promise(...) settles: the handler resumes
RdfSettles ==
    /\ pc = "ParsingRdf"
    /\ stream.outer # "pending"
    /\ Return(RdfOutcome(stream))
    /\ UNCHANGED <<route, req, handles, running, parked, ng, ui, parseOptions, networkError, bodyRead, parserCalls, stages, fetchOptions, fetchCalls, upstream,
                   stream, warned, threw>>

Next ==
    \/ ReadBody
    \/ Validate
    \/ AuthenticateStage
    \/ PrepareBodyStage
    \/ Dispatch
    \/ FetchRejects
    \/ FetchResolves
    \/ ErrorBodyRead
    \/ JsonSettles
    \/ TextRejects
    \/ XmlParses
    \/ RdfParseStarts
    \/ StreamData
    \/ StreamError
    \/ StreamEnd
    \/ Microtask
    \/ RdfSettles

Spec == Init /\ [][Next]_vars

-----------------------------------------------------------------------------
(* Two requests in flight.  Node runs one continuation at a time: between   *)
(* two awaits only one invocation of POST runs, and at an await the event   *)
(* loop may resume the other.  Each invocation has its own locals (let and  *)
(* const inside POST); the library handles are the module's.               *)

\* the locals of the running invocation
Locals ==
    [route |-> route, req |-> req, pc |-> pc, stages |-> stages,
     fetchOptions |-> fetchOptions, fetchCalls |-> fetchCalls, upstream |-> upstream,
     stream |-> stream, warned |-> warned, responses |-> responses, threw |-> threw,
     networkError |-> networkError, bodyRead |-> bodyRead,
     parserCalls |-> parserCalls, parseOptions |-> parseOptions]

\* the locals of an invocation that has not started
InitialLocals(r, q) ==
    [route |-> r, req |-> q, pc |-> "ReadingBody", stages |-> <<>>,
     fetchOptions |-> NoFetchOptions, fetchCalls |-> <<>>, upstream |-> NoUpstream,
     stream |-> NoStream, warned |-> FALSE, responses |-> <<>>, threw |-> FALSE,
     networkError |-> Undefined, bodyRead |-> "unread",
     parserCalls |-> <<>>, parseOptions |-> NoParseOptions]

OtherUrl == "https://api.example.com/other"

\* the pairs of requests handled together: on each route a plain GET and a
\* POST to another URL with a body, a caller header and an authentication
ConcurrentPairs ==
    { << InitialLocals(r, Request("object", "https://api.example.com/data", r,
                                  <<Undefined, Undefined>>, NoHeaders,
                                  NoCreds(FALSE, Undefined, FALSE), Undefined)),
         InitialLocals(r, Request("object", OtherUrl, r, <<"POST", "payload">>,
                                  [n \in {"Authorization"} |-> CallerValue],
                                  Auth(TRUE, "bearerToken", TRUE, UndefinedS, Undefined,
                                       UndefinedS, TokenValue, UndefinedS, UndefinedS),
                                  IF r = "rdf" THEN "text/turtle" ELSE Undefined)) >> :
        r \in Routes }

InitConcurrent ==
    /\ \E pair \in ConcurrentPairs :
          /\ route = pair[1].route
          /\ req = pair[1].req
          /\ parked = <<pair[2]>>
    /\ handles \in Handles(route)
    /\ pc = "ReadingBody"
    /\ stages = <<>>
    /\ fetchOptions = NoFetchOptions
    /\ fetchCalls = <<>>
    /\ upstream = NoUpstream
    /\ stream = NoStream
    /\ warned = FALSE
    /\ responses = <<>>
    /\ threw = FALSE
    /\ networkError = Undefined
    /\ bodyRead = "unread"
    /\ parserCalls = <<>>
    /\ parseOptions = NoParseOptions
    /\ running = 1
    /\ ng = NerdgraphHandler("Idle", Undefined, Undefined, NoNerdgraphBody)
    /\ ui = Mounted

\* where an invocation can be suspended: its awaits, and its end
AwaitPoints ==
    {"ReadingBody", "AwaitingFetch", "ReadingErrorBody", "ParsingJson", "ReadingText",
     "ParsingRdf", "Done"}

\* Switch with externalApiResponse declared in the module, not inside POST
SwitchSharedResponse ==
    /\ parked # <<>>
    /\ pc \in AwaitPoints
    /\ running' = 3 - running
    /\ parked' = <<Locals>>
    /\ route' = parked[1].route
    /\ req' = parked[1].req
    /\ pc' = parked[1].pc
    /\ stages' = parked[1].stages
    /\ fetchOptions' = parked[1].fetchOptions
    /\ fetchCalls' = parked[1].fetchCalls
    /\ stream' = parked[1].stream
    /\ warned' = parked[1].warned
    /\ responses' = parked[1].responses
    /\ threw' = parked[1].threw
    /\ networkError' = parked[1].networkError
    /\ bodyRead' = parked[1].bodyRead
    /\ parserCalls' = parked[1].parserCalls
    /\ parseOptions' = parked[1].parseOptions
    /\ UNCHANGED <<handles, upstream, ng, ui>>

\* the running invocation is suspended at its await and the event loop
\* resumes the other one: its locals come back as it left them
Switch ==
    /\ parked # <<>>
    /\ pc \in AwaitPoints
    /\ running' = 3 - running
    /\ parked' = <<Locals>>
    /\ route' = parked[1].route
    /\ req' = parked[1].req
    /\ pc' = parked[1].pc
    /\ stages' = parked[1].stages
    /\ fetchOptions' = parked[1].fetchOptions
    /\ fetchCalls' = parked[1].fetchCalls
    /\ upstream' = parked[1].upstream
    /\ stream' = parked[1].stream
    /\ warned' = parked[1].warned
    /\ responses' = parked[1].responses
    /\ threw' = parked[1].threw
    /\ networkError' = parked[1].networkError
    /\ bodyRead' = parked[1].bodyRead
    /\ parserCalls' = parked[1].parserCalls
    /\ parseOptions' = parked[1].parseOptions
    /\ UNCHANGED <<handles, ng, ui>>

NextConcurrent ==
    \/ Next
    \/ Switch

SpecConcurrent == InitConcurrent /\ [][NextConcurrent]_vars

-----------------------------------------------------------------------------
(* One request whose awaits settle.  The handler's synchronous code runs   *)
(* to its next await once entered; that request.json(), fetch() and the    *)
(* body reads settle, and that the quad stream emits 'end' or 'error', is   *)
(* the environment's part.                                                  *)

Settles ==
    /\ WF_vars(ReadBody)
    /\ WF_vars(Validate \/ AuthenticateStage \/ PrepareBodyStage \/ Dispatch)
    /\ WF_vars(FetchRejects \/ FetchResolves)
    /\ WF_vars(ErrorBodyRead \/ JsonSettles \/ TextRejects \/ XmlParses \/ RdfParseStarts)
    /\ WF_vars(StreamEnd \/ StreamError)
    /\ WF_vars(Microtask \/ RdfSettles)

SpecFair == Init /\ [][Next]_vars /\ Settles

-----------------------------------------------------------------------------
(* The nerdgraph route: POST of the GraphQL proxy.                         *)

fetcherVars == <<route, req, handles, pc, stages, fetchOptions, fetchCalls, upstream,
                 stream, warned, responses, threw, networkError, bodyRead, parserCalls,
                 parseOptions, running, parked>>

\* process.env.ACCOUNT_ID, process.env.NR_USER_KEY: unset, set empty, set
EnvValues == {Undefined, "", "1234567"}

NrqlQueries == {"SELECT count(*) FROM Transaction"}

NerdgraphBodies ==
    { NerdgraphBody("malformed", Visualizations("absent", <<>>)),
      NerdgraphBody("null", Visualizations("absent", <<>>)) }
    \cup { NerdgraphBody("object", Visualizations(k, <<>>)) : k \in {"absent", "null"} }
    \cup { NerdgraphBody("object", Visualizations("string", <<"x">>)) }
    \cup { NerdgraphBody("object", Visualizations("array", items)) :
              items \in {<<>>} \cup {<<q>> : q \in NrqlQueries}
                       \cup {<<q1, q2>> : q1 \in NrqlQueries, q2 \in NrqlQueries} }

\* !visualizations: an array, even an empty one, and a non-empty string are truthy
VisualizationsGiven(v) == v.kind \in {"array", "string"}

\* the query template: one aliased nrql selection v<i> per visualization
query(accountId, visualizations) ==
    [i \in 1..Len(visualizations.items) |->
        [alias |-> i - 1, accounts |-> accountId, query |-> visualizations.items[i]]]

\* fetch("https://api.newrelic.com/graphql", { method, headers, body })
GraphqlCall(h) ==
    [url |-> "https://api.newrelic.com/graphql", method |-> "POST",
     contentType |-> "application/json", apiKey |-> h.NR_USER_KEY,
     body |-> query(h.ACCOUNT_ID, h.body.visualizations)]

\* NextResponse.json(body, { status, statusText })
NerdgraphResponse(status, statusText, body) ==
    [status |-> status, statusText |-> statusText, body |-> body]

NerdgraphUpstreams ==
    { NerdgraphUpstream(200, "OK", TRUE), NerdgraphUpstream(200, "OK", FALSE),
      NerdgraphUpstream(401, "Unauthorized", TRUE),
      NerdgraphUpstream(403, "Forbidden", TRUE),
      NerdgraphUpstream(500, "Internal Server Error", FALSE) }

NgReturn(response) ==
    ng' = [ng EXCEPT !.pc = "Done", !.responses = Append(@, response)]

NgThrow == ng' = [ng EXCEPT !.pc = "Done", !.threw = TRUE]

InitNerdgraph ==
    /\ route = "json"
    /\ req = EmptyRequest("malformed")
    /\ handles \in Handles("json")
    /\ pc = "Done"
    /\ stages = <<>>
    /\ fetchOptions = NoFetchOptions
    /\ fetchCalls = <<>>
    /\ upstream = NoUpstream
    /\ stream = NoStream
    /\ warned = FALSE
    /\ responses = <<>>
    /\ threw = FALSE
    /\ networkError = Undefined
    /\ bodyRead = "unread"
    /\ parserCalls = <<>>
    /\ parseOptions = NoParseOptions
    /\ running = 1
    /\ parked = <<>>
    /\ \E a \in EnvValues, k \in EnvValues, b \in NerdgraphBodies :
          ng = NerdgraphHandler("CheckingCredentials", a, k, b)
    /\ ui = Mounted

\* CheckCredentials with && for ||: one credential is enough
CheckCredentialsEither ==
    /\ ng.pc = "CheckingCredentials"
    /\ IF ~Truthy(ng.ACCOUNT_ID) /\ ~Truthy(ng.NR_USER_KEY)
       THEN NgReturn(NerdgraphResponse(500, "NO_INIT", "{ success: false }"))
       ELSE ng' = [ng EXCEPT !.pc = "ReadingBody"]
    /\ UNCHANGED <<fetcherVars, ui>>

\* if (!ACCOUNT_ID || !NR_USER_KEY) return ... NO_INIT
CheckCredentials ==
    /\ ng.pc = "CheckingCredentials"
    /\ IF ~Truthy(ng.ACCOUNT_ID) \/ ~Truthy(ng.NR_USER_KEY)
       THEN NgReturn(NerdgraphResponse(500, "NO_INIT", "{ success: false }"))
       ELSE ng' = [ng EXCEPT !.pc = "ReadingBody"]
    /\ UNCHANGED <<fetcherVars, ui>>

\* const { visualizations } = await request.json(), the NO_INPUT check, and
\* the call of fetch with the query built from the visualizations
ReadVisualizations ==
    /\ ng.pc = "ReadingBody"
    /\ CASE ng.body.kind \in {"malformed", "null"} ->
              \* request.json() rejects, or null is destructured: nothing catches
              ng' = [ng EXCEPT !.pc = "Done", !.threw = TRUE, !.bodyRead = TRUE]
         [] ~VisualizationsGiven(ng.body.visualizations) ->
              ng' = [ng EXCEPT !.pc = "Done", !.bodyRead = TRUE,
                               !.responses = Append(@, NerdgraphResponse(500, "NO_INPUT",
                                                                         "{ success: false }"))]
         [] ng.body.visualizations.kind = "string" ->
              \* visualizations.map is not a function: query() throws
              ng' = [ng EXCEPT !.pc = "Done", !.threw = TRUE, !.bodyRead = TRUE]
         [] OTHER ->
              ng' = [ng EXCEPT !.pc = "AwaitingFetch", !.bodyRead = TRUE,
                               !.calls = Append(@, GraphqlCall(ng))]
    /\ UNCHANGED <<fetcherVars, ui>>

\* fetch rejects: no try encloses the await
GraphqlRejects ==
    /\ ng.pc = "AwaitingFetch"
    /\ NgThrow
    /\ UNCHANGED <<fetcherVars, ui>>

\* fetch resolves: if (response.ok) ... else the upstream's status is returned
GraphqlResolves ==
    /\ ng.pc = "AwaitingFetch"
    /\ \E u \in NerdgraphUpstreams :
          IF u.status >= 200 /\ u.status <= 299
          THEN ng' = [ng EXCEPT !.pc = "ReadingJson", !.upstream = u]
          ELSE ng' = [ng EXCEPT !.pc = "Done", !.upstream = u,
                                !.responses = Append(@, NerdgraphResponse(u.status,
                                                            u.statusText, "{}"))]
    /\ UNCHANGED <<fetcherVars, ui>>

\* const json = await response.json(); return NextResponse.json({ json })
GraphqlJsonSettles ==
    /\ ng.pc = "ReadingJson"
    /\ IF ng.upstream.parses
       THEN NgReturn(NerdgraphResponse(200, "", "{ json }"))
       ELSE NgThrow
    /\ UNCHANGED <<fetcherVars, ui>>

NextNerdgraph ==
    \/ CheckCredentials
    \/ ReadVisualizations
    \/ GraphqlRejects
    \/ GraphqlResolves
    \/ GraphqlJsonSettles

SpecNerdgraph == InitNerdgraph /\ [][NextNerdgraph]_vars

-----------------------------------------------------------------------------
(* The Dashboard component: the input and handleKeyPress.                  *)

\* the key events one run follows
MaxKeyPresses == 2

\* what the user types: nothing, blanks, a request, a request after a blank
Messages == { <<>>, <<" ", " ">>, <<"c", "p", "u">>, <<" ", "c", "p", "u">> }

Keys == {"Enter", "a"}

\* String.prototype.trim
RECURSIVE TrimStart(_)
TrimStart(m) == IF m # <<>> /\ Head(m) = " " THEN TrimStart(Tail(m)) ELSE m

RECURSIVE TrimEnd(_)
TrimEnd(m) == IF m # <<>> /\ m[Len(m)] = " " THEN TrimEnd(SubSeq(m, 1, Len(m) - 1)) ELSE m

Trim(m) == TrimEnd(TrimStart(m))

\* what /api/dashboard answers, as response.json() and the JSON.parse of
\* json.data[1].content see it: a body that is no JSON; JSON without the two
\* messages; a content that is no JSON; the contents null, {}, an object
\* without visualizations, one with an empty list, one with visualizations
DashboardAnswers ==
    {"not json", "no data", "unparseable", "null", "{}", "no visualizations",
     "empty visualizations", "visualizations"}

\* what /api/nerdgraph answers: a body response.json() reads, or not
NerdgraphAnswers == {"json", "not json"}

InitDashboard ==
    /\ route = "json"
    /\ req = EmptyRequest("malformed")
    /\ handles \in Handles("json")
    /\ pc = "Done"
    /\ stages = <<>>
    /\ fetchOptions = NoFetchOptions
    /\ fetchCalls = <<>>
    /\ upstream = NoUpstream
    /\ stream = NoStream
    /\ warned = FALSE
    /\ responses = <<>>
    /\ threw = FALSE
    /\ networkError = Undefined
    /\ bodyRead = "unread"
    /\ parserCalls = <<>>
    /\ parseOptions = NoParseOptions
    /\ running = 1
    /\ parked = <<>>
    /\ ng = NerdgraphHandler("Idle", Undefined, Undefined, NoNerdgraphBody)
    /\ ui = Mounted

\* handleKeyPress ends by an exception nothing catches
UiThrow == ui' = [ui EXCEPT !.pc = "Idle", !.threw = TRUE]

\* onChange: setMessage(value || ""); the input is disabled while loading
ChangeMessage ==
    /\ ~ui.loading
    /\ \E m \in Messages : ui' = [ui EXCEPT !.message = m]
    /\ UNCHANGED <<fetcherVars, ng>>

\* onKeyDown: handleKeyPress up to its first await
KeyDown ==
    /\ ~ui.loading
    /\ ui.pc = "Idle"
    /\ Len(ui.keys) < MaxKeyPresses
    /\ \E key \in Keys :
          IF key = "Enter" /\ Trim(ui.message) # <<>>
          THEN ui' = [ui EXCEPT !.keys = Append(@, key), !.loading = TRUE,
                                !.responseMessages = "[]", !.data = "{}",
                                !.threw = FALSE, !.content = "none",
                                !.calls = Append(@, "/api/dashboard"),
                                !.pc = "AwaitingDashboard"]
          ELSE ui' = [ui EXCEPT !.keys = Append(@, key)]
    /\ UNCHANGED <<fetcherVars, ng>>

\* await fetch("/api/dashboard", ...) rejects
DashboardRejects ==
    /\ ui.pc = "AwaitingDashboard"
    /\ UiThrow
    /\ UNCHANGED <<fetcherVars, ng>>

\* await fetch("/api/dashboard", ...) resolves
DashboardResolves ==
    /\ ui.pc = "AwaitingDashboard"
    /\ \E answer \in DashboardAnswers :
          ui' = [ui EXCEPT !.pc = "ReadingDashboard", !.content = answer]
    /\ UNCHANGED <<fetcherVars, ng>>

\* const json = await response.json() settles, and what follows it up to
\* the next await or the end of the handler
DashboardJsonSettles ==
    /\ ui.pc = "ReadingDashboard"
    /\ CASE ui.content = "not json" -> UiThrow
         [] ui.content = "no data" ->
              ui' = [ui EXCEPT !.pc = "Idle", !.loading = FALSE]
         [] ui.content \in {"unparseable", "null"} ->
              \* setLoading(false), then Object.keys(vizData) of undefined or null
              ui' = [ui EXCEPT !.pc = "Idle", !.loading = FALSE, !.threw = TRUE]
         [] ui.content = "{}" ->
              ui' = [ui EXCEPT !.pc = "Idle", !.loading = FALSE]
         [] ui.content \in {"no visualizations", "empty visualizations"} ->
              ui' = [ui EXCEPT !.pc = "Idle", !.loading = FALSE, !.responseMessages = "set"]
         [] OTHER ->
              ui' = [ui EXCEPT !.pc = "AwaitingNerdgraph",
                               !.calls = Append(@, "/api/nerdgraph")]
    /\ UNCHANGED <<fetcherVars, ng>>

\* await fetch("/api/nerdgraph", ...) rejects
NerdgraphRejects ==
    /\ ui.pc = "AwaitingNerdgraph"
    /\ UiThrow
    /\ UNCHANGED <<fetcherVars, ng>>

\* await fetch("/api/nerdgraph", ...) resolves
NerdgraphResolves ==
    /\ ui.pc = "AwaitingNerdgraph"
    /\ \E answer \in NerdgraphAnswers :
          ui' = [ui EXCEPT !.pc = "ReadingNerdgraph", !.content = answer]
    /\ UNCHANGED <<fetcherVars, ng>>

\* const nerdgraphJson = await nerdgraphResponse.json() settles; setData,
\* setLoading(false)
NerdgraphJsonSettles ==
    /\ ui.pc = "ReadingNerdgraph"
    /\ IF ui.content = "not json"
       THEN UiThrow
       ELSE ui' = [ui EXCEPT !.pc = "Idle", !.loading = FALSE, !.data = "set"]
    /\ UNCHANGED <<fetcherVars, ng>>

NextDashboard ==
    \/ ChangeMessage
    \/ KeyDown
    \/ DashboardRejects
    \/ DashboardResolves
    \/ DashboardJsonSettles
    \/ NerdgraphRejects
    \/ NerdgraphResolves
    \/ NerdgraphJsonSettles

SpecDashboard == InitDashboard /\ [][NextDashboard]_vars

TypeOK ==
    /\ route \in Routes
    /\ pc \in {"ReadingBody", "Validating", "Authenticating", "PreparingBody",
               "Dispatching", "AwaitingFetch", "ReadingErrorBody", "ParsingJson",
               "ReadingText", "ParsingRdf", "Done"}
    /\ Len(responses) <= 1
    /\ bodyRead \in {"unread", "read", "failed"}
    /\ networkError \in NetworkErrors \cup {Undefined}
    /\ running \in {1, 2}
    /\ Len(parked) <= 1

-----------------------------------------------------------------------------
(* What the claims are stated with.                                        *)

Done == pc = "Done"

\* the envelope of a finished request that returned one
Response == responses[1]

Answered == Done /\ Len(responses) = 1

\* The validation rules of the specification, numbered in its order of
\* precedence: 1 malformed inbound JSON, 2 missing apiUrl, 3 missing
\* dataType, 4 dataType other than the route's, 5 authentication without
\* type or credentials, 6 the credentials of the kind lack a field.
MissingS(s) == s = UndefinedS \/ s = <<>>
MissingV(v) == v = Undefined \/ v = ""

ViolatedRules(r, q) ==
    LET a == q.authentication
    IN  {n \in 1..6 :
           \/ n = 1 /\ q.bodyKind = "malformed"
           \/ n = 2 /\ q.bodyKind # "malformed" /\ MissingV(q.apiUrl)
           \/ n = 3 /\ q.bodyKind # "malformed" /\ MissingV(q.dataType)
           \/ n = 4 /\ ~MissingV(q.dataType) /\ q.dataType # r
           \/ n = 5 /\ a.given /\ (MissingV(a.type) \/ ~a.hasCredentials)
           \/ n = 6 /\ a.given /\ a.hasCredentials
                    /\ \/ a.type = "apiKey" /\ (MissingS(a.key) \/ MissingV(a.headerName))
                       \/ a.type = "bearerToken" /\ MissingS(a.token)
                       \/ a.type = "basicAuth"
                          /\ (MissingS(a.username) \/ a.password = UndefinedS) }

FirstViolated(r, q) == CHOOSE n \in ViolatedRules(r, q) : \A m \in ViolatedRules(r, q) : n <= m

\* the error text that reports each rule, as the routes' tests read it
RuleMessage(r, q, n) ==
    CASE n = 1 -> "Invalid JSON in request body."
      [] n = 2 -> "Missing 'apiUrl' in request body."
      [] n = 3 -> "Missing 'dataType' in request body."
      [] n = 4 -> "Invalid 'dataType'. Expected '" \o r \o "', got '" \o q.dataType \o "'."
      [] n = 5 -> IF r = "rdf" THEN "Invalid 'authentication' object."
                  ELSE "Invalid 'authentication' object. Missing 'type' or 'credentials'."
      [] n = 6 ->
           CASE q.authentication.type = "apiKey" ->
                   IF r = "rdf" THEN "Invalid 'apiKey' credentials."
                   ELSE "Invalid 'apiKey' credentials. Missing 'key' or 'headerName'."
             [] q.authentication.type = "bearerToken" ->
                   IF r = "rdf" THEN "Invalid 'bearerToken' credentials."
                   ELSE "Invalid 'bearerToken' credentials. Missing 'token'."
             [] OTHER ->
                   IF r = "rdf" THEN "Invalid 'basicAuth' credentials."
                   ELSE "Invalid 'basicAuth' credentials. Missing 'username' or 'password'."

\* the rdf route lacks one of its two library handles
Misconfigured == ~handles.rdfParserInstance \/ ~handles.actualUsableArrayifyStream

-----------------------------------------------------------------------------
(* C1 - C5                                                                 *)

MismatchedType == req.bodyKind = "object" /\ Truthy(req.apiUrl)
                  /\ Truthy(req.dataType) /\ req.dataType # route

\* C1: on each route, a request whose apiUrl and dataType are given and
\* whose dataType is not the route's format never reaches the outbound call
\* and is answered with status 400 and an error that names the expected and
\* the received dataType.
C1_MismatchRejectedWithoutCall ==
    MismatchedType =>
        /\ fetchCalls = <<>>
        /\ Done => /\ Len(responses) = 1
                   /\ Response.status = 400
                   /\ ~Response.success
                   /\ Response.error = "Invalid 'dataType'. Expected '" \o route
                                       \o "', got '" \o req.dataType \o "'."

C1_Witness ==
    /\ Done /\ route = "json" /\ req.dataType = "xml" /\ Truthy(req.apiUrl)
    /\ Len(responses) = 1
    /\ Response.status = 400
    /\ Response.error = "Invalid 'dataType'. Expected 'json', got 'xml'."
    /\ fetchCalls = <<>>

\* C2: a request that violates any validation rule never gets past the
\* authentication stage: the handler never prepares the body, never issues
\* the outbound call and never holds an upstream response for it.
C2_ViolationStopsPipeline ==
    ViolatedRules(route, req) # {} =>
        /\ fetchCalls = <<>>
        /\ upstream = NoUpstream
        /\ pc \in {"ReadingBody", "Validating", "Authenticating", "Done"}
        /\ \A i \in 1..Len(stages) : stages[i] \in {"validate", "authenticate"}

C2_Witness ==
    /\ Done
    /\ ViolatedRules(route, req) = {6}
    /\ req.authentication.type = "apiKey"
    /\ stages = <<"validate", "authenticate">>
    /\ Len(responses) = 1 /\ Response.status = 400
    /\ fetchCalls = <<>>

\* C3: when a request violates one or several validation rules, the failure
\* the handler reports for it with status 400 is that of the first violated
\* rule in the fixed order; the only other answer such a request gets is the
\* rdf route's 500 for a missing library handle, whose check stands between
\* the dataType rules and the authentication rules.
C3_FirstViolatedRuleReported ==
    (Answered /\ ViolatedRules(route, req) # {}) =>
        /\ ~Response.success
        /\ Response.status \in {400, 500}
        /\ Response.status = 400 =>
              Response.error = RuleMessage(route, req, FirstViolated(route, req))
        /\ Response.status = 500 =>
              route = "rdf" /\ Misconfigured /\ FirstViolated(route, req) >= 5

C3_Witness ==
    /\ Answered
    /\ ViolatedRules(route, req) = {2, 3, 5}
    /\ Response.status = 400
    /\ Response.error = "Missing 'apiUrl' in request body."

IsPrefix(s, t) == Len(s) <= Len(t) /\ SubSeq(t, 1, Len(s)) = s

\* C4: the stages of a request are entered in the order validate,
\* authenticate, dispatch, parse, each at most once; the outbound call is
\* issued exactly when the dispatch stage is entered and only for a request
\* that violates no validation rule; the parser runs only on an upstream
\* response with a success status, never after a transport failure or a
\* non-success status; parsed data is returned only after the parse stage.
C4_StagesInOrder ==
    /\ IsPrefix(stages, <<"validate", "authenticate", "dispatch", "parse">>)
    /\ Len(fetchCalls) = (IF Len(stages) >= 3 THEN 1 ELSE 0)
    /\ fetchCalls # <<>> => ViolatedRules(route, req) = {}
    /\ Len(stages) = 4 =>
          /\ upstream # NoUpstream
          /\ upstream.status >= 200 /\ upstream.status <= 299
    /\ (Answered /\ Response.success) => Len(stages) = 4
    /\ (Answered /\ Response.status \in {401, 403, 502}) => Len(stages) = 3

C4_Witness ==
    /\ Answered /\ Response.success
    /\ stages = <<"validate", "authenticate", "dispatch", "parse">>
    /\ Len(fetchCalls) = 1
    /\ upstream.status = 200

\* C5 as the specification states it: every finished request has produced
\* exactly one envelope, which is either a success with the parsed data and
\* no error, or a failure with one error and no data.
C5_ExactlyOneEnvelope ==
    Done =>
        /\ Len(responses) = 1
        /\ Response.success => Response.hasData /\ Response.error = "" /\ ~Response.hasDetails
        /\ ~Response.success => ~Response.hasData /\ Response.error # ""

-----------------------------------------------------------------------------
(* C6 - C10                                                                *)

\* C6: in the rdf route, when the quad stream raises 'error' before it ends,
\* with or without records produced before, the request ends with the 422
\* parse failure and no data; and a success always carries every record the
\* stream produced, of a stream that has ended.
C6_MidStreamErrorIs422 ==
    /\ (Done /\ route = "rdf" /\ stream.first = "error") =>
          /\ Len(responses) = 1
          /\ Response.status = 422
          /\ ~Response.success
          /\ ~Response.hasData
    /\ (Answered /\ route = "rdf" /\ Response.success) =>
          /\ stream.ended
          /\ Response.data.quads = stream.emitted

C6_Witness ==
    /\ Answered /\ route = "rdf"
    /\ stream.first = "error"
    /\ stream.errorAfter >= 1
    /\ ~stream.ended
    /\ Response.status = 422

\* C7: once the quad stream has emitted 'error' while the awaited promise
\* was not yet resolved, no later step resolves it: neither a late 'end' nor
\* the collector's pending .then(resolve) turns the outcome into a success.
C7_ErrorBeatsLateCompletion ==
    [][(stream.errors > 0 /\ stream.outer # "resolved") => stream'.outer # "resolved"]_vars

C7_Witness ==
    /\ Answered /\ route = "rdf"
    /\ stream.first = "error"
    /\ stream.ended
    /\ stream.microtasks = <<>>
    /\ ~Response.success

\* the header name and value each kind of authentication is to send, written out
ExpectedAuthName(a) == IF a.type = "apiKey" THEN a.headerName ELSE "Authorization"

ExpectedAuthValue(a) ==
    CASE a.type = "apiKey" /\ a.prefix = UndefinedS -> <<"k","e","y">>
      [] a.type = "apiKey" /\ a.prefix = PrefixValue ->
            <<"A","p","i","K","e","y"," ","k","e","y">>
      [] a.type = "bearerToken" -> <<"B","e","a","r","e","r"," ","t","o","k">>
      [] a.type = "basicAuth" /\ a.password = PassValue ->
            <<"B","a","s","i","c"," ","d","X","N","l","c","j","p","w","Y","X","N","z">>
      [] a.type = "basicAuth" /\ a.password = <<>> ->
            <<"B","a","s","i","c"," ","d","X","N","l","c","j","o","=">>

\* C8: every outbound call of a request with authentication carries exactly
\* the header of its kind: apiKey headers[headerName] = prefix + key (the
\* prefix empty when absent), bearerToken Authorization = "Bearer " + token,
\* basicAuth Authorization = "Basic " + base64(username:password); and the
\* headers hold nothing but Content-Type, the caller's headers and that one.
C8_AuthHeaderComputed ==
    \A i \in 1..Len(fetchCalls) :
        LET a == req.authentication
            h == fetchCalls[i].options.headers
        IN  a.given =>
              /\ a.type \in {"apiKey", "bearerToken", "basicAuth"}
              /\ DOMAIN h = {"Content-Type", ExpectedAuthName(a)} \cup DOMAIN req.headers
              /\ h[ExpectedAuthName(a)] = ExpectedAuthValue(a)

C8_Witness ==
    /\ Len(fetchCalls) = 1
    /\ req.authentication.type = "basicAuth"
    /\ req.authentication.password = PassValue
    /\ fetchCalls[1].options.headers["Authorization"] =
          <<"B","a","s","i","c"," ","d","X","N","l","c","j","p","w","Y","X","N","z">>

\* C9: the authentication header is in fetchOptions before the call and is
\* what the call sends: from the end of the authentication stage on, and in
\* every outbound call, the headers hold it with the computed value, also
\* when the caller's headers give the same name another value and when a
\* body is added afterwards.
C9_AuthHeaderNeverDropped ==
    LET a == req.authentication
    IN  a.given =>
          /\ pc \in {"PreparingBody", "Dispatching", "AwaitingFetch"} =>
                /\ ExpectedAuthName(a) \in DOMAIN fetchOptions.headers
                /\ fetchOptions.headers[ExpectedAuthName(a)] = ExpectedAuthValue(a)
          /\ \A i \in 1..Len(fetchCalls) :
                /\ fetchCalls[i].options.headers = fetchOptions.headers
                /\ ExpectedAuthName(a) \in DOMAIN req.headers =>
                      fetchCalls[i].options.headers[ExpectedAuthName(a)]
                         # req.headers[ExpectedAuthName(a)]

C9_Witness ==
    /\ Len(fetchCalls) = 1
    /\ req.authentication.type = "bearerToken"
    /\ "Authorization" \in DOMAIN req.headers
    /\ req.headers["Authorization"] = CallerValue
    /\ fetchCalls[1].options.hasBody
    /\ fetchCalls[1].options.headers["Authorization"] =
          <<"B","e","a","r","e","r"," ","t","o","k">>

BasicAuthGiven ==
    /\ req.bodyKind = "object" /\ Truthy(req.apiUrl) /\ req.dataType = route
    /\ req.authentication.given /\ req.authentication.hasCredentials
    /\ req.authentication.type = "basicAuth"

\* an object body under POST that the xml and rdf routes refuse: the
\* caller's Content-Type is not a JSON one
RefusedBody ==
    /\ route # "json" /\ req.body = ObjectBody /\ req.method = "POST"
    /\ "Content-Type" \in DOMAIN req.headers

\* C10: a basicAuth request with a username and the empty string as password
\* passes validation: it is never answered with the basicAuth 400, and its
\* outbound call is issued with Authorization "Basic " + base64("user:"),
\* unless the rdf route lacks a library handle or the body is refused; a
\* basicAuth request without a password field, or with the username absent
\* or empty, is answered 400 with the basicAuth error and makes no call.
C10_EmptyPasswordAccepted ==
    LET a == req.authentication
    IN  /\ (BasicAuthGiven /\ a.username = UserValue /\ a.password = <<>>) =>
              /\ pc = "AwaitingFetch" =>
                    /\ Len(fetchCalls) = 1
                    /\ fetchCalls[1].options.headers["Authorization"] =
                          <<"B","a","s","i","c"," ","d","X","N","l","c","j","o","=">>
              /\ Done =>
                    /\ Len(responses) = 1
                    /\ Response.error # RuleMessage(route, req, 6)
                    /\ \/ Len(fetchCalls) = 1
                       \/ RefusedBody /\ Response.status = 400
                       \/ route = "rdf" /\ Misconfigured /\ Response.status = 500
        /\ (BasicAuthGiven /\ (a.password = UndefinedS \/ a.username \in {UndefinedS, <<>>})) =>
              /\ fetchCalls = <<>>
              /\ (Done /\ ~Misconfigured) =>
                    /\ Len(responses) = 1
                    /\ Response.status = 400
                    /\ Response.error = RuleMessage(route, req, 6)

C10_Witness ==
    /\ Answered
    /\ BasicAuthGiven
    /\ req.authentication.username = UserValue
    /\ req.authentication.password = <<>>
    /\ Len(fetchCalls) = 1
    /\ fetchCalls[1].options.headers["Authorization"] =
          <<"B","a","s","i","c"," ","d","X","N","l","c","j","o","=">>
    /\ Response.success

-----------------------------------------------------------------------------
(* C11 - C15                                                               *)

\* an authentication with type and credentials whose type the switch has no
\* case for
UnsupportedKind ==
    /\ req.bodyKind = "object"
    /\ req.authentication.given
    /\ Truthy(req.authentication.type)
    /\ req.authentication.hasCredentials
    /\ req.authentication.type \notin {"apiKey", "bearerToken", "basicAuth"}

\* the request passes stage 1: apiUrl and dataType are right and, on the rdf
\* route, the library handles are there
PassesInputValidation ==
    /\ req.bodyKind = "object"
    /\ ViolatedRules(route, req) \cap {1, 2, 3, 4} = {}
    /\ ~(route = "rdf" /\ Misconfigured)

\* C11: a request whose authentication has type and credentials but a type
\* other than apiKey, bearerToken, basicAuth makes no outbound call on any
\* route and is never answered as an upstream failure (401, 403, 502) nor
\* with a success; once it has passed input validation it is answered 400
\* with the error "Unsupported authentication type: '<type>'." and no
\* details; before that, only an earlier input rule (400) or the rdf route's
\* missing library handle (500) answers it.
C11_UnsupportedKindIsLocal400 ==
    UnsupportedKind =>
        /\ fetchCalls = <<>>
        /\ upstream = NoUpstream
        /\ networkError = Undefined
        /\ Done =>
              /\ Len(responses) = 1
              /\ ~Response.success
              /\ Response.status \notin {401, 403, 502}
              /\ PassesInputValidation =>
                    /\ Response.status = 400
                    /\ Response.error = "Unsupported authentication type: '"
                                        \o req.authentication.type \o "'."
                    /\ ~Response.hasDetails
              /\ ~PassesInputValidation =>
                    \/ Response.status = 400
                    \/ Response.status = 500 /\ route = "rdf" /\ Misconfigured

C11_Witness ==
    /\ Answered
    /\ UnsupportedKind
    /\ req.authentication.type = "oauth2"
    /\ PassesInputValidation
    /\ stages = <<"validate", "authenticate">>
    /\ Response.status = 400
    /\ Response.error = "Unsupported authentication type: 'oauth2'."
    /\ fetchCalls = <<>>

\* C12 as the specification states it: when the outbound call rejects, the
\* request ends with status 502, success false and details equal to the
\* message of the error the call rejected with, whatever that message is.
C12_TransportFailureCarriesMessage ==
    (Done /\ networkError # Undefined) =>
        /\ Len(responses) = 1
        /\ Response.status = 502
        /\ ~Response.success
        /\ Response.hasDetails
        /\ Response.details = StringDetails(networkError)

\* C13: when the upstream answers 401 or 403, on every route and with or
\* without an authentication in the request, the request ends with that
\* same status, success false, the error "Authentication failed with
\* external API." and details whose originalStatus is the upstream's status.
C13_UpstreamAuthFailurePassesThrough ==
    (Done /\ upstream.status \in {401, 403}) =>
        /\ Len(responses) = 1
        /\ Response.status = upstream.status
        /\ ~Response.success
        /\ ~Response.hasData
        /\ Response.error = "Authentication failed with external API."
        /\ Response.hasDetails
        /\ Response.details.kind = "upstream"
        /\ Response.details.originalStatus = upstream.status

C13_Witness ==
    /\ Answered
    /\ ~req.authentication.given
    /\ upstream.status = 401
    /\ Response.status = 401
    /\ Response.details.originalStatus = 401

\* the upstream answered with a status outside 200..299 that is neither 401
\* nor 403
OtherNonSuccess ==
    /\ upstream # NoUpstream
    /\ upstream.status < 200 \/ upstream.status > 299
    /\ upstream.status \notin {401, 403}

\* C14: when the upstream answers with a non-success status other than 401
\* and 403, on every route the request ends with status 502, success false,
\* the error "External API request failed." and details that hold the
\* upstream's status as originalStatus, its status text as
\* originalStatusText and, as originalBody, the body text that was read
\* (null when the body could not be read).
C14_OtherUpstreamFailureIs502 ==
    (Done /\ OtherNonSuccess) =>
        /\ Len(responses) = 1
        /\ Response.status = 502
        /\ ~Response.success
        /\ ~Response.hasData
        /\ Response.error = "External API request failed."
        /\ Response.hasDetails
        /\ Response.details.kind = "upstream"
        /\ Response.details.originalStatus = upstream.status
        /\ Response.details.originalStatusText = upstream.statusText
        /\ Response.details.originalBody =
              (IF bodyRead = "read" THEN upstream.body ELSE Null)

C14_Witness ==
    /\ Answered
    /\ upstream.status = 503
    /\ bodyRead = "read"
    /\ Response.status = 502
    /\ Response.details.originalStatus = 503
    /\ Response.details.originalStatusText = "Service Unavailable"
    /\ Response.details.originalBody = "Error: Server unavailable"

\* the upstream answered with a success status and a body that was read and
\* is not of the route's format: text that is no JSON; markup with a missing
\* closing tag or that the parser throws on; a quad stream that raises
\* 'error' before it ends, or a parser that throws when it is called
DoesNotParse ==
    /\ upstream # NoUpstream
    /\ upstream.status >= 200 /\ upstream.status <= 299
    /\ bodyRead = "read"
    /\ \/ route = "json" /\ upstream.body = BadJson
       \/ route = "xml" /\ upstream.body \in {MalformedXml, UnparseableXml}
       \/ route = "rdf" /\ stream.first = "error"

\* C15: on every route, a request whose upstream call succeeded and whose
\* response body does not parse as the route's format ends with status 422,
\* success false and no data; it never ends with 200.
C15_UnparseableBodyIs422 ==
    (Done /\ DoesNotParse) =>
        /\ Len(responses) = 1
        /\ Response.status = 422
        /\ ~Response.success
        /\ ~Response.hasData

C15_Witness ==
    /\ Answered
    /\ route = "json"
    /\ upstream.status = 200
    /\ upstream.body = "This is not JSON"
    /\ bodyRead = "read"
    /\ Response.status = 422
    /\ Response.error = "Failed to parse JSON response from external API."

-----------------------------------------------------------------------------
(* C16 - C20                                                               *)

\* the upstream answered with a success status and its body could not be read
BodyReadFailed ==
    /\ upstream # NoUpstream
    /\ upstream.status >= 200 /\ upstream.status <= 299
    /\ bodyRead = "failed"

\* C16 as the specification states it: on the json, xml and rdf routes, a
\* request whose upstream call returned a success status and whose response
\* body cannot be read ends with status 500 and success false, not with the
\* 422 of a body that was read and does not parse.
C16_BodyReadFailureIs500 ==
    (Done /\ BodyReadFailed) =>
        /\ Len(responses) = 1
        /\ Response.status = 500
        /\ ~Response.success

\* the value each JSON text of the upstream stands for, written out
ExpectedJsonValue(text) ==
    CASE text = "{\"message\":\"Success!\"}" -> "{ message: 'Success!' }"
      [] text = "null" -> "<null>"

\* C17: on the json route, a request that passed validation and whose
\* upstream answered with a success status and a body that was read and
\* parses ends with status 200 and the envelope {success: true, data}, the
\* data being the value the body stands for; the envelope has no error and
\* no details.
C17_JsonSuccessEnvelope ==
    (Done /\ route = "json" /\ upstream # NoUpstream
          /\ upstream.status >= 200 /\ upstream.status <= 299
          /\ bodyRead = "read" /\ upstream.body \in {GoodJson, NullJson}) =>
        /\ Len(responses) = 1
        /\ req.dataType = "json" /\ Truthy(req.apiUrl)
        /\ Response.status = 200
        /\ Response.success
        /\ Response.hasData
        /\ Response.data.kind = "json"
        /\ Response.data.value = ExpectedJsonValue(upstream.body)
        /\ Response.error = ""
        /\ ~Response.hasDetails

C17_Witness ==
    /\ Answered
    /\ route = "json"
    /\ upstream.status = 200
    /\ upstream.body = "{\"message\":\"Success!\"}"
    /\ Response.status = 200
    /\ Response.success
    /\ Response.data.value = "{ message: 'Success!' }"

\* the failure kind of a finished request, read from what happened to it
FailureKind ==
    CASE fetchCalls = <<>> /\ route = "rdf" /\ Misconfigured
         /\ ViolatedRules(route, req) \cap {1, 2, 3, 4} = {} -> "misconfiguration"
      [] fetchCalls = <<>> -> "validation"
      [] networkError # Undefined -> "transport"
      [] upstream.status \in {401, 403} -> "upstream authentication"
      [] upstream.status < 200 \/ upstream.status > 299 -> "upstream"
      [] bodyRead = "failed" -> "body read"
      [] \/ route = "json" /\ upstream.body = BadJson
         \/ route = "xml" /\ upstream.body \in {MalformedXml, UnparseableXml}
         \/ route = "rdf" /\ stream.outer = "rejected" -> "parse"
      [] OTHER -> "none"

\* the outward status the specification gives each failure kind
StatusOfKind(kind) ==
    CASE kind = "validation" -> 400
      [] kind = "misconfiguration" -> 500
      [] kind = "transport" -> 502
      [] kind = "upstream authentication" -> upstream.status
      [] kind = "upstream" -> 502
      [] kind = "body read" -> 500
      [] kind = "parse" -> 422
      [] OTHER -> 200

\* C18 as the specification states it: in every finished request that
\* returned an envelope, the status is 200 exactly when success is true, a
\* failure has a status among 400, 401, 403, 422, 500, 502, and the status
\* is the one of the request's failure kind: validation or authentication
\* configuration 400, upstream 401/403 passed through, parse 422,
\* misconfiguration or body read 500, transport or other upstream failure 502.
C18_StatusAgreesWithEnvelope ==
    Answered =>
        /\ (Response.status = 200) <=> Response.success
        /\ Response.success <=> FailureKind = "none"
        /\ ~Response.success => Response.status \in {400, 401, 403, 422, 500, 502}
        /\ Response.status = StatusOfKind(FailureKind)

\* a request with a body and a body-carrying method that no validation rule,
\* library handle or authentication type stops before the body handling
CarriesBodyRequest ==
    /\ PassesInputValidation
    /\ ViolatedRules(route, req) = {}
    /\ ~UnsupportedKind
    /\ Truthy(req.body)
    /\ req.method \in {"POST", "PUT", "PATCH"}

\* the Content-Type of the outbound call: the caller's, or the default
EffectiveContentType ==
    IF "Content-Type" \in DOMAIN req.headers
    THEN req.headers["Content-Type"]
    ELSE <<"a","p","p","l","i","c","a","t","i","o","n","/","j","s","o","n">>

IndicatesJson(ct) ==
    ct \in { <<"a","p","p","l","i","c","a","t","i","o","n","/","j","s","o","n">>,
             <<"A","p","p","l","i","c","a","t","i","o","n","/","J","S","O","N">> }

\* the request went past the body handling and the call, or ended
PastBodyHandling ==
    pc \notin {"ReadingBody", "Validating", "Authenticating", "PreparingBody", "Dispatching"}

\* C19 as the specification states it: on every route, for a request with a
\* body and a method among POST, PUT, PATCH, a string body is sent as it
\* is; a body that is no string is sent as its JSON text when the outbound
\* Content-Type (the caller's, or the default) indicates JSON; and otherwise
\* the request is answered 400 and no outbound call is made.
C19_BodyHandling ==
    (CarriesBodyRequest /\ PastBodyHandling) =>
        IF req.body # ObjectBody
        THEN /\ Len(fetchCalls) = 1
             /\ fetchCalls[1].options.hasBody
             /\ fetchCalls[1].options.body = req.body
        ELSE IF IndicatesJson(EffectiveContentType)
        THEN /\ Len(fetchCalls) = 1
             /\ fetchCalls[1].options.hasBody
             /\ fetchCalls[1].options.body = "{\"key\":\"value\"}"
        ELSE /\ fetchCalls = <<>>
             /\ Done
             /\ Len(responses) = 1
             /\ Response.status = 400
             /\ ~Response.success

\* C20: on the xml route XMLValidator.validate is always called before
\* XMLParser.parse, each at most once; when the body that was read has a
\* missing closing tag the parser is never called and the request ends with
\* status 422, the error "Failed to validate XML response: Malformed XML."
\* and, as details, the validator's err object with its code InvalidTag.
C20_ValidationBeforeParse ==
    route = "xml" =>
        /\ IsPrefix(parserCalls, <<"XMLValidator.validate", "XMLParser.parse">>)
        /\ (bodyRead = "read" /\ upstream.status >= 200 /\ upstream.status <= 299
            /\ upstream.body = MalformedXml) =>
              /\ parserCalls = <<"XMLValidator.validate">>
              /\ Done
              /\ Len(responses) = 1
              /\ Response.status = 422
              /\ ~Response.success
              /\ Response.error = "Failed to validate XML response: Malformed XML."
              /\ Response.hasDetails
              /\ Response.details.kind = "validator"
              /\ Response.details.text = "InvalidTag"

C20_Witness ==
    /\ Answered
    /\ route = "xml"
    /\ upstream.body = "<root><item>Test</item><item>Data</root"
    /\ parserCalls = <<"XMLValidator.validate">>
    /\ Response.status = 422
    /\ Response.details.text = "InvalidTag"

-----------------------------------------------------------------------------
(* C21 - C25                                                               *)

\* the rdf route has called rdfParserInstance.parse
ParseCalled == \E i \in 1..Len(parserCalls) : parserCalls[i] = "rdfParserInstance.parse"

OverrideGiven == req.rdfContentType \notin {"<undefined>", ""}
HeaderPresent == upstream.contentType \notin {"<undefined>", ""}

\* C21: on the rdf route the content type in the parseOptions handed to the
\* parser is the request's rdf.contentType when it is given (and not empty),
\* else the Content-Type header of the upstream response when it has one,
\* else undefined; console.warn is called exactly when neither is there,
\* once, and before rdfParserInstance.parse; nothing warns or parses before
\* the response text has been read.
C21_ContentTypePrecedence ==
    route = "rdf" =>
        /\ ~ParseCalled => ~warned /\ parserCalls = <<>> /\ ~parseOptions.given
        /\ ParseCalled =>
              /\ parseOptions.given
              /\ parseOptions.contentType =
                    (IF OverrideGiven THEN req.rdfContentType
                     ELSE IF HeaderPresent THEN upstream.contentType
                     ELSE "<undefined>")
              /\ warned <=> (~OverrideGiven /\ ~HeaderPresent)
              /\ warned =>
                    /\ parserCalls[1] = "console.warn"
                    /\ parserCalls[2] = "rdfParserInstance.parse"
              /\ ~warned => parserCalls[1] = "rdfParserInstance.parse"
              /\ Cardinality({i \in 1..Len(parserCalls) : parserCalls[i] = "console.warn"})
                    = (IF warned THEN 1 ELSE 0)

C21_Witness ==
    /\ Answered /\ route = "rdf"
    /\ req.rdfContentType = "text/turtle"
    /\ upstream.contentType = "application/octet-stream"
    /\ parseOptions.contentType = "text/turtle"
    /\ ~warned
    /\ Response.success

C21_WitnessWarned ==
    /\ Answered /\ route = "rdf"
    /\ req.rdfContentType = ""
    /\ upstream.contentType = "<undefined>"
    /\ warned
    /\ parserCalls = <<"console.warn", "rdfParserInstance.parse">>
    /\ Response.status = 422

\* C22: on the rdf route, when the quad stream has ended and raised no
\* 'error', the request ends with status 200 and success true, and the data
\* of the response is the sequence of the quads the stream emitted, in the
\* order of their 'data' events: the first emitted first, each once.
C22_FullOrderedSequence ==
    (Done /\ route = "rdf" /\ stream.ended /\ stream.errors = 0) =>
        /\ Len(responses) = 1
        /\ Response.status = 200
        /\ Response.success
        /\ Response.hasData
        /\ Response.data.kind = "quads"
        /\ Response.data.quads = stream.emitted
        /\ \A i \in 1..Len(Response.data.quads) : Response.data.quads[i] = i

C22_Witness ==
    /\ Answered /\ route = "rdf"
    /\ stream.ended /\ stream.errors = 0
    /\ Len(stream.emitted) >= 2
    /\ Response.status = 200
    /\ Response.data.quads = <<1, 2>>

\* C23: in every run of a request the outbound call is issued at most once,
\* whatever becomes of it: a request that ended after a transport failure,
\* an upstream non-success status, an unreadable or unparseable body or a
\* success has issued exactly one call, and every other request none.
C23_NoRetry ==
    /\ Len(fetchCalls) <= 1
    /\ Done =>
          Len(fetchCalls) =
             (IF networkError # "<undefined>" \/ upstream # NoUpstream THEN 1 ELSE 0)

C23_Witness ==
    /\ Answered
    /\ networkError = "Network failure"
    /\ Response.status = 502
    /\ Len(fetchCalls) = 1

\* the call an invocation issues when its request passes the local stages
OwnCall(l) ==
    LET a == Authenticate(l.route, l.req.authentication, InitialFetchOptions(l.req).headers)
        fo == [InitialFetchOptions(l.req) EXCEPT !.headers = a.value]
    IN  [url |-> l.req.apiUrl, options |-> PrepareBody(l.route, l.req, fo).value]

\* the calls and the response of an invocation come from its own request
OwnWork(l) ==
    /\ l.fetchCalls \in {<<>>, <<OwnCall(l)>>}
    /\ l.upstream # NoUpstream => l.fetchCalls = <<OwnCall(l)>>
    /\ l.responses # <<>> /\ l.responses[1].status = 400 => l.fetchCalls = <<>>

\* a step of one invocation leaves the other's locals alone, and a resumed
\* invocation finds its locals as it left them
Isolated ==
    /\ running' = running => parked' = parked
    /\ running' # running => parked' = <<Locals>> /\ Locals' = parked[1]

\* C24: two requests handled together do not touch each other's state: each
\* one's outbound call is the call of its own request, no step of one changes
\* what the other holds, a resumed request finds what it left, and the library
\* handles of the module never change after load.
C24_RequestsIndependent ==
    /\ [](OwnWork(Locals) /\ (parked # <<>> => OwnWork(parked[1])))
    /\ [][handles' = handles /\ Isolated]_vars

\* the second request has finished with its own call while the first is still
\* waiting for its upstream
C24_Witness ==
    /\ parked # <<>>
    /\ running = 2
    /\ Done
    /\ responses # <<>>
    /\ fetchCalls = <<OwnCall(Locals)>>
    /\ fetchCalls[1].url = OtherUrl
    /\ parked[1].pc = "AwaitingFetch"
    /\ parked[1].fetchCalls # <<>>
    /\ parked[1].fetchCalls[1].url # OtherUrl

-----------------------------------------------------------------------------
(* C26 - C30                                                               *)

\* nothing of the request changes once it is Done
DoneIsTerminal ==
    Done => UNCHANGED <<pc, stages, fetchCalls, responses, threw, parserCalls, stream>>

\* C26 as the specification states it: when every await settles and the quad
\* stream emits end or error, every request eventually reaches Done with a
\* response returned; and Done is terminal, no stage runs after it.
C26_EventuallyDoneWithResponse ==
    /\ <>(Done /\ Len(responses) = 1)
    /\ [][DoneIsTerminal]_vars

\* C27 as the specification states it: whatever the inbound body, malformed
\* JSON, JSON that is not an object such as null, or an object, the handler
\* does not fail: it ends with one envelope, {success: true, data} or
\* {success: false, error, details?}.
C27_EveryInboundBodyAnswered ==
    /\ ~threw
    /\ Done =>
          /\ Len(responses) = 1
          /\ Response.success => Response.hasData /\ Response.error = ""
          /\ ~Response.success => ~Response.hasData /\ Response.error # ""

\* the request has an apiUrl and the dataType of the rdf route
ValidForRdf ==
    /\ route = "rdf"
    /\ req.bodyKind = "object"
    /\ Truthy(req.apiUrl)
    /\ Truthy(req.dataType)

\* C28: in the rdf route with a library handle unavailable, a request with an
\* apiUrl and dataType rdf ends with status 500 and success false, with no
\* outbound call and no stage after validation; a request that fails the
\* apiUrl or dataType rules still gets their 400, so the check comes after them.
C28_MissingHandleIs500 ==
    (Done /\ ValidForRdf /\ Misconfigured) =>
        /\ Len(responses) = 1
        /\ ~Response.success
        /\ fetchCalls = <<>>
        /\ stages = <<"validate">>
        /\ Response.status = (IF req.dataType = "rdf" THEN 500 ELSE 400)
        /\ req.dataType = "rdf" =>
              Response.error = (IF ~handles.rdfParserInstance
                                THEN "RDF parser instance not available."
                                ELSE "actualUsableArrayifyStream function not available.")

\* the stream-to-array function alone is missing and the request, which also
\* carries an authentication that would be refused, got the 500
C28_Witness ==
    /\ Done /\ ValidForRdf /\ req.dataType = "rdf"
    /\ handles.rdfParserInstance /\ ~handles.actualUsableArrayifyStream
    /\ req.authentication.given /\ ViolatedRules(route, req) # {}
    /\ Len(responses) = 1 /\ Response.status = 500

\* C29 as the specification states it: every outbound call goes to a
\* non-empty string, the apiUrl of the request; and a request whose apiUrl is
\* absent, empty or not a string ends with a 400 and no outbound call.
C29_TargetIsNonEmptyString ==
    /\ \A i \in 1..Len(fetchCalls) :
          /\ IsString(fetchCalls[i].url)
          /\ fetchCalls[i].url # ""
          /\ fetchCalls[i].url = req.apiUrl
    /\ (Done /\ req.bodyKind = "object" /\ (~IsString(req.apiUrl) \/ req.apiUrl = "")) =>
          /\ Len(responses) = 1
          /\ Response.status = 400
          /\ fetchCalls = <<>>

\* the method and the Content-Type of an outbound call are the request's, or
\* the defaults GET and application/json
MethodAndContentTypeAsGiven(o) ==
    /\ o.method = (IF req.method = Undefined THEN "GET" ELSE req.method)
    /\ "Content-Type" \in DOMAIN o.headers
    /\ o.headers["Content-Type"] =
          (IF "Content-Type" \in DOMAIN req.headers
           THEN req.headers["Content-Type"] ELSE AppJson)

\* the header the authentication stage writes
AuthSets(n) ==
    /\ req.authentication.given
    /\ n = ExpectedAuthName(req.authentication)

-----------------------------------------------------------------------------
(* C31 - C37                                                               *)

\* C31 as the specification states it: an error envelope has a details key
\* only with a non-empty details value; the validation failures of an object
\* body (apiUrl, dataType, authentication, credentials, unsupported kind,
\* refused body) have none, and malformed inbound JSON, transport failures,
\* upstream failures and parse failures all have one.
C31_DetailsOnlyWhenSupplied ==
    (Done /\ Len(responses) = 1 /\ ~Response.success) =>
        /\ Response.hasDetails => DetailsTruthy(Response.details)
        /\ (FailureKind = "validation" /\ req.bodyKind = "object") =>
              ~Response.hasDetails /\ Response.details = NullDetails
        /\ (\/ req.bodyKind = "malformed"
            \/ FailureKind \in {"transport", "upstream authentication", "upstream", "parse"}) =>
              Response.hasDetails

\* what the authentication stage of each route does with the request's
\* authentication, on the headers the request starts with
AuthOn(r) == Authenticate(r, req.authentication, MergeHeaders(req.headers))

C32_WitnessRefused ==
    /\ route = "xml" /\ Done /\ PassesInputValidation
    /\ req.authentication.type = "basicAuth"
    /\ ~AuthOn("rdf").ok
    /\ Len(responses) = 1 /\ Response.status = 400

NgDone == ng.pc = "Done"

CredentialsSet == Truthy(ng.ACCOUNT_ID) /\ Truthy(ng.NR_USER_KEY)

\* C33: the nerdgraph route calls the GraphQL endpoint at most once and only
\* with both ACCOUNT_ID and NR_USER_KEY set and visualizations in the body;
\* with a credential missing it ends with 500 and success false without
\* having read the body, with visualizations absent or null in an object body
\* it ends with 500 and success false, neither with a call; and a non-ok
\* answer of the upstream ends with the upstream's status.
C33_ProxyCallsOnlyWhenConfigured ==
    /\ Len(ng.calls) <= 1
    /\ ng.calls # <<>> =>
          /\ CredentialsSet
          /\ ng.body.kind = "object" /\ ng.body.visualizations.kind = "array"
          /\ ng.calls[1].apiKey = ng.NR_USER_KEY
    /\ (NgDone /\ ~CredentialsSet) =>
          /\ ng.responses = <<NerdgraphResponse(500, "NO_INIT", "{ success: false }")>>
          /\ ~ng.bodyRead
          /\ ng.calls = <<>>
    /\ (NgDone /\ CredentialsSet /\ ng.body.kind = "object"
              /\ ~VisualizationsGiven(ng.body.visualizations)) =>
          /\ ng.responses = <<NerdgraphResponse(500, "NO_INPUT", "{ success: false }")>>
          /\ ng.calls = <<>>
    /\ (NgDone /\ ng.upstream # NoNerdgraphUpstream
              /\ (ng.upstream.status < 200 \/ ng.upstream.status > 299)) =>
          /\ Len(ng.responses) = 1
          /\ ng.responses[1].status = ng.upstream.status
          /\ ng.responses[1].status # 200

\* the upstream refused the key and the route answered 403
C33_Witness ==
    /\ NgDone /\ CredentialsSet
    /\ Len(ng.calls) = 1 /\ Len(ng.calls[1].body) = 2
    /\ ng.upstream.status = 403
    /\ ng.responses = <<NerdgraphResponse(403, "Forbidden", "{}")>>

\* the user key is set to the empty string: 500 without a read of the body
C33_WitnessNoInit ==
    /\ NgDone /\ Truthy(ng.ACCOUNT_ID) /\ ng.NR_USER_KEY = ""
    /\ ng.body.visualizations.kind = "array"
    /\ Len(ng.responses) = 1 /\ ng.responses[1].statusText = "NO_INIT"

\* the upstream answered with a non-success status and its body could not be read
ErrorBodyUnreadable ==
    /\ upstream # NoUpstream
    /\ upstream.status < 200 \/ upstream.status > 299
    /\ bodyRead = "failed"

\* C34: when the upstream answers with a non-success status and the read of
\* its body fails, the request ends as the upstream failure all the same: 401
\* or 403 passed through, 502 otherwise, never 500, with details whose
\* originalBody is null and whose originalStatus and originalStatusText are
\* the upstream's.
C34_UnreadableErrorBodyKeepsStatus ==
    (Done /\ ErrorBodyUnreadable) =>
        /\ Len(responses) = 1
        /\ ~Response.success
        /\ Response.status = (IF upstream.status \in {401, 403} THEN upstream.status ELSE 502)
        /\ Response.status # 500
        /\ Response.hasDetails
        /\ Response.details.kind = "upstream"
        /\ Response.details.originalBody = Null
        /\ Response.details.originalStatus = upstream.status
        /\ Response.details.originalStatusText = upstream.statusText

\* a 503 whose body could not be read ended as 502 on the xml route
C34_Witness ==
    /\ Done /\ ErrorBodyUnreadable
    /\ route = "xml"
    /\ upstream.status = 503
    /\ Len(responses) = 1 /\ Response.status = 502
    /\ Response.details.originalBody = Null

\* a 401 whose body could not be read passed through on the rdf route
C34_WitnessPassThrough ==
    /\ Done /\ ErrorBodyUnreadable
    /\ route = "rdf"
    /\ upstream.status = 401
    /\ Len(responses) = 1 /\ Response.status = 401

\* the body handling is skipped: no body, or a falsy one, or a method that is
\* not exactly POST, PUT or PATCH
WithoutBody ==
    \/ req.body = Undefined
    \/ req.body = ""
    \/ req.method \notin {"POST", "PUT", "PATCH"}

BodyHandlingMessages ==
    { "Failed to stringify request body.", "Failed to stringify JSON request body.",
      "Request body must be a string for non-JSON content types, or if 'Content-Type' is not 'application/json'.",
      "Request body must be a string for non-JSON content types or if 'Content-Type' is not 'application/json'." }

\* C35: a request whose method is not exactly POST, PUT or PATCH, or whose
\* body is absent or falsy, gets no body on its outbound call and no error of
\* the body handling, whatever the body's type and the Content-Type.
C35_NoBodyWithoutBodyMethod ==
    (req.bodyKind = "object" /\ WithoutBody) =>
        /\ \A i \in 1..Len(fetchCalls) :
              /\ ~fetchCalls[i].options.hasBody
              /\ fetchCalls[i].options.body = Undefined
        /\ pc = "Dispatching" => ~fetchOptions.hasBody
        /\ \A i \in 1..Len(responses) : responses[i].error \notin BodyHandlingMessages
        /\ (PassesInputValidation /\ ViolatedRules(route, req) = {} /\ ~UnsupportedKind
                /\ Done) => Len(fetchCalls) = 1

\* an object body under a lower-case "post" and a Content-Type that is no
\* JSON one, on the xml route: the call went out without a body
C35_Witness ==
    /\ route = "xml"
    /\ req.method = "post" /\ req.body = ObjectBody
    /\ "Content-Type" \in DOMAIN req.headers /\ req.headers["Content-Type"] = AppXml
    /\ Len(fetchCalls) = 1
    /\ ~fetchCalls[1].options.hasBody

\* PUT with the empty string as body: the call went out without a body
C35_WitnessFalsyBody ==
    /\ req.method = "PUT" /\ req.body = ""
    /\ Len(fetchCalls) = 1
    /\ ~fetchCalls[1].options.hasBody

\* C36: a request without authentication has, on its outbound call, exactly
\* the caller's headers and the default Content-Type where the caller gives
\* none: the authentication stage adds and changes nothing.
C36_NoAuthenticationNoHeader ==
    (req.bodyKind = "object" /\ ~req.authentication.given) =>
        /\ \A i \in 1..Len(fetchCalls) :
              LET h == fetchCalls[i].options.headers
              IN  /\ DOMAIN h = {"Content-Type"} \cup DOMAIN req.headers
                  /\ \A n \in DOMAIN h :
                        h[n] = (IF n \in DOMAIN req.headers THEN req.headers[n] ELSE AppJson)
                  /\ "Authorization" \in DOMAIN h => "Authorization" \in DOMAIN req.headers
        /\ pc \in {"PreparingBody", "Dispatching"} =>
              DOMAIN fetchOptions.headers = {"Content-Type"} \cup DOMAIN req.headers
        /\ \A i \in 1..Len(responses) : responses[i].error \notin
              { "Invalid 'authentication' object.",
                "Invalid 'authentication' object. Missing 'type' or 'credentials'." }

\* a call without authentication went out with the default Content-Type alone
C36_Witness ==
    /\ ~req.authentication.given
    /\ req.headers = NoHeaders
    /\ Len(fetchCalls) = 1
    /\ DOMAIN fetchCalls[1].options.headers = {"Content-Type"}
    /\ fetchCalls[1].options.headers["Content-Type"] = AppJson

\* and one with the caller's own Authorization header, left as it was
C36_WitnessCallerHeader ==
    /\ ~req.authentication.given
    /\ "Authorization" \in DOMAIN req.headers
    /\ Len(fetchCalls) = 1
    /\ fetchCalls[1].options.headers["Authorization"] = req.headers["Authorization"]

\* what the component shows and has sent
ComponentState(u) == <<u.message, u.loading, u.responseMessages, u.data, u.calls, u.pc>>

\* a key event that is no submission: another key, or Enter on a blank message
KeyIgnored ==
    /\ Len(ui'.keys) = Len(ui.keys) + 1
    /\ ui'.keys[Len(ui'.keys)] # "Enter" \/ Trim(ui.message) = <<>>

\* C37 as the specification states it: once the handler of an Enter on a
\* non-blank message has ended, however its two calls went, loading is false
\* again; and a key other than Enter, or Enter on a blank message, changes no
\* state of the component and issues no call.
C37_LoadingIsReset ==
    /\ [](ui.pc = "Idle" => ~ui.loading)
    /\ [][KeyIgnored => ComponentState(ui') = ComponentState(ui)]_vars

====
